---- MODULE Spec2Model ----
(***************************************************************************)
(* Pipeline control core of the research co-pilot:                         *)
(*   - MoyaAgentOrchestrator.decide_next_task / _rule_based_decision       *)
(*     (research-copilot/orchestrator/moya_orchestrator.py)                *)
(*   - ResearchCopilot stage methods, run_full_pipeline, interactive_mode  *)
(*     (research-copilot/main.py)                                          *)
(*   - PDFParser.parse_pdf / _fix_spacing, TraceLogger, process_papers     *)
(*     (research_copilot_interactive.py), StorageManager.log_trace         *)
(* None is written "none"; a Python list is modelled by its length.        *)
(***************************************************************************)
EXTENDS Integers, Sequences, FiniteSets, TLC

VARIABLES
    pc,                 \* position of the process (main / interactive_mode / run_full_pipeline)
    pipeline_state,     \* ResearchCopilot.pipeline_state: the four flags
    parsed_papers,      \* len(ResearchCopilot.parsed_papers)
    summaries,          \* len(ResearchCopilot.summaries)
    synthesis,          \* ResearchCopilot.synthesis: "none" or "dict"
    survey,             \* ResearchCopilot.survey: "none" or "text"
    orchestrator_type,  \* MoyaAgentOrchestrator.orchestrator_type ("none" before initialize_run)
    moya_accepts,       \* whether MultiAgentOrchestrator(...) accepts the keyword arguments
    success,            \* local variable success of run_full_pipeline
    lastDecide,         \* inputs and result of the most recent decide_next_task call
    lastCall,           \* the most recent stage invocation: flags before it, what it did, what it returned
    lastRule,           \* argument and result of the most recent direct _rule_based_decision call
    run,                \* the current run_full_pipeline: flags at its start, stages attempted, work outcomes
    parsers,            \* PDFParser.parsers: the backends that could be imported, in priority order
    lastParse,          \* inputs and result of the most recent PDFParser.parse_pdf call
    trace_file,         \* content of the trace file: the writes that reached it, in file order
    text,               \* argument of _fix_spacing: a sequence of characters
    fixed,              \* result of the most recent _fix_spacing call
    pdf_files,          \* the PDF files of the folder given to process_papers, in sorted order
    batch,              \* position and locals of process_papers
    writers,            \* per caller: the part of its line an append has not yet written to the file
    appended,           \* number of append calls made on the trace file so far
    lastLlm,            \* the most recent call of an agent method that asks the language model
    lastRead            \* the most recent reading of the trace file by a trace viewer

mainVars == <<pc, pipeline_state, parsed_papers, summaries, synthesis, survey,
              orchestrator_type, moya_accepts, success, lastDecide, lastCall, lastRule, run>>

interactiveVars == <<parsers, lastParse, trace_file, text, fixed, pdf_files, batch,
                     writers, appended>>

agentVars == <<lastLlm, lastRead>>

vars == <<mainVars, interactiveVars, agentVars>>

\* Largest number of PDF files the parser agent finds in the folder.
MaxPapers == 2

-----------------------------------------------------------------------------
(* Pipeline state and tasks *)

FlagOrder == <<"papers_parsed", "summaries_generated", "synthesis_done", "survey_written">>

Flags == {FlagOrder[i] : i \in 1..4}

AllStates == [Flags -> BOOLEAN]

InitialPipelineState == [f \in Flags |-> FALSE]

StageOrder == <<"parse_papers", "generate_summaries", "synthesize_insights", "write_survey">>

Stages == {StageOrder[i] : i \in 1..4}

Tasks == Stages \cup {"complete"}

FlagOf(stage) ==
    CASE stage = "parse_papers" -> "papers_parsed"
      [] stage = "generate_summaries" -> "summaries_generated"
      [] stage = "synthesize_insights" -> "synthesis_done"
      [] stage = "write_survey" -> "survey_written"

\* _rule_based_decision with the first two tests exchanged.
rule_based_decision_swapped(state) ==
    IF ~state["summaries_generated"] THEN "generate_summaries"
    ELSE IF ~state["papers_parsed"] THEN "parse_papers"
    ELSE IF ~state["synthesis_done"] THEN "synthesize_insights"
    ELSE IF ~state["survey_written"] THEN "write_survey"
    ELSE "complete"

rule_based_decision(state) ==
    IF ~state["papers_parsed"] THEN "parse_papers"
    ELSE IF ~state["summaries_generated"] THEN "generate_summaries"
    ELSE IF ~state["synthesis_done"] THEN "synthesize_insights"
    ELSE IF ~state["survey_written"] THEN "write_survey"
    ELSE "complete"

\* A read that also marks the flag it has looked at.
after_get_marking(state, key) == [state EXCEPT ![key] = TRUE]

\* state.get(key, False): the dictionary after the read, which inserts nothing
after_get(state, key) == state

\* The dictionary after the if/elif chain of state.get tests, which reads the
\* flags in order from number i up to the first false one
RECURSIVE after_flag_tests(_, _)
after_flag_tests(state, i) ==
    IF i > Len(FlagOrder)
    THEN state
    ELSE IF ~state[FlagOrder[i]]
    THEN after_get(state, FlagOrder[i])
    ELSE after_flag_tests(after_get(state, FlagOrder[i]), i + 1)

\* The dictionary after _rule_based_decision(state)
state_after_rule_based_decision(state) == after_flag_tests(state, 1)

\* The dictionary after _build_orchestrator_query(state): four reads for the
\* completed steps, then the same chain of tests
state_after_build_orchestrator_query(state) ==
    after_flag_tests(
        after_get(after_get(after_get(after_get(state, FlagOrder[1]), FlagOrder[2]),
                            FlagOrder[3]), FlagOrder[4]),
        1)

-----------------------------------------------------------------------------
(* decide_next_task *)

AgentNames == {"pdf_parser", "summarizer", "synthesizer", "survey_writer"}

\* agent_name_map with a copy-paste slip in the second entry.
agent_name_map_slip(task) ==
    CASE task = "parse_papers" -> "pdf_parser"
      [] task = "generate_summaries" -> "synthesizer"
      [] task = "synthesize_insights" -> "synthesizer"
      [] task = "write_survey" -> "survey_writer"
      [] OTHER -> "none"

\* agent_name_map.get(task): task -> agent, None for 'complete'
agent_name_map(task) ==
    CASE task = "parse_papers" -> "pdf_parser"
      [] task = "generate_summaries" -> "summarizer"
      [] task = "synthesize_insights" -> "synthesizer"
      [] task = "write_survey" -> "survey_writer"
      [] OTHER -> "none"

\* task_mapping.get(selected_agent_name, None): agent -> task
task_mapping(agent) ==
    CASE agent = "pdf_parser" -> "parse_papers"
      [] agent = "summarizer" -> "generate_summaries"
      [] agent = "synthesizer" -> "synthesize_insights"
      [] agent = "survey_writer" -> "write_survey"
      [] OTHER -> "none"

\* What the Moya orchestrator call does: route() of a MultiAgent orchestrator
\* raises or returns a dict whose agent_name is a known agent, an unknown
\* identifier or None; orchestrate() of a Simple orchestrator raises or returns.
SelectorOutcomes(otype) ==
    IF otype = "MultiAgent"
    THEN {[kind |-> "raise", agent |-> "none"]}
         \cup {[kind |-> "dict", agent |-> a] : a \in AgentNames \cup {"unknown_agent", "none"}}
    ELSE {[kind |-> "raise", agent |-> "none"], [kind |-> "response", agent |-> "none"]}

\* The storage calls of decide_next_task, in program order.
StorageSites == {"decision", "invoke", "result", "save", "error"}

\* Which storage calls raise (OSError on the run folder): the first failing
\* call of the normal path, and whether the log call of the except handler fails.
StorageFaults == [first : {"none", "decision", "invoke", "result", "save"}, error : BOOLEAN]

NoFaults == [first |-> "none", error |-> FALSE]

StorageRaises(faults, site) ==
    \/ faults.first = site
    \/ site = "error" /\ faults.error

\* The entry log_trace(event_type, data) appends
TraceEntry(event_type, data) ==
    [event_type |-> event_type, data |-> data]

\* The entry an agent logs; success is "True", "False", or "none" when the
\* event has no such key
AgentEvent(event_type, agent_name, succeeded) ==
    TraceEntry(event_type, [agent |-> agent_name, success |-> succeeded])

\* reasoning[:500] and error_trace[:500]
ReasoningPrefix == 500

\* len("Pipeline complete")
PipelineCompleteLen == 17

\* s[:limit], as a length
slice_length(length, limit) == IF length > limit THEN limit ELSE length

\* Length of the text in reasoning: the selector's own words (here longer than
\* the prefix kept in the trace), or "Pipeline complete"
reasoning_length(otype, selected_agent_name) ==
    IF otype = "Simple" /\ selected_agent_name = "none"
    THEN PipelineCompleteLen
    ELSE 2 * ReasoningPrefix

decide_next_task(current_state, otype, sel, faults) ==
    LET rule == rule_based_decision(current_state)
        e_decision == TraceEntry("moya_orchestrator_decision",
                                 [orchestrator_type |-> otype, current_state |-> current_state])
        e_invoke == TraceEntry("moya_orchestrator_invoke", [query |-> rule])
        e_error == TraceEntry("moya_orchestrator_error",
                              [error |-> "exception",
                               traceback |-> slice_length(2 * ReasoningPrefix, ReasoningPrefix),
                               fallback |-> "rule_based"])
        \* lines 158-187
        selected_agent_name ==
            IF otype = "MultiAgent" THEN sel.agent ELSE agent_name_map(rule)
        selectorRaises ==
            IF otype = "MultiAgent"
            THEN sel.kind = "raise"
            ELSE selected_agent_name # "none" /\ sel.kind = "raise"
        \* lines 190-201
        mapped == task_mapping(selected_agent_name)
        next_task == IF mapped = "none" THEN rule ELSE mapped
        e_result == TraceEntry("moya_orchestrator_result",
                               [orchestrator_type |-> otype,
                                selected_agent |-> selected_agent_name,
                                decision |-> next_task,
                                reasoning |-> slice_length(
                                    reasoning_length(otype, selected_agent_name),
                                    ReasoningPrefix)])
        \* lines 223-236
        Handler(events, agent) ==
            IF StorageRaises(faults, "error")
            THEN [outcome |-> "raised", raisedAt |-> "error", task |-> "none",
                  selected_agent |-> agent, mapped |-> FALSE, events |-> events,
                  saved |-> FALSE]
            ELSE [outcome |-> "returned", raisedAt |-> "none", task |-> rule,
                  selected_agent |-> agent, mapped |-> FALSE,
                  events |-> Append(events, e_error), saved |-> FALSE]
    IN  IF StorageRaises(faults, "decision")
        THEN [outcome |-> "raised", raisedAt |-> "decision", task |-> "none",
              selected_agent |-> "none", mapped |-> FALSE, events |-> <<>>,
              saved |-> FALSE]
        ELSE IF StorageRaises(faults, "invoke")
        THEN Handler(<<e_decision>>, "none")
        ELSE IF selectorRaises
        THEN Handler(<<e_decision, e_invoke>>, "none")
        ELSE IF StorageRaises(faults, "result")
        THEN Handler(<<e_decision, e_invoke>>, selected_agent_name)
        ELSE IF StorageRaises(faults, "save")
        THEN Handler(<<e_decision, e_invoke, e_result>>, selected_agent_name)
        ELSE [outcome |-> "returned", raisedAt |-> "none", task |-> next_task,
              selected_agent |-> selected_agent_name, mapped |-> mapped # "none",
              events |-> <<e_decision, e_invoke, e_result>>, saved |-> TRUE]

\* The dictionary after decide_next_task(current_state): log_trace only
\* serializes it, the query is built from reads, the selector is given the query
\* text and not the dictionary, and _rule_based_decision is called by the
\* Simple branch, for an unmapped agent and by the except handler
state_after_decide_next_task(current_state, otype, sel, faults) ==
    LET d == decide_next_task(current_state, otype, sel, faults)
        queried == state_after_build_orchestrator_query(current_state)
    IN  IF d.raisedAt = "decision"
        THEN current_state
        ELSE IF otype = "Simple" \/ ~d.mapped
        THEN state_after_rule_based_decision(queried)
        ELSE queried

NoDecide ==
    [called |-> FALSE, state |-> InitialPipelineState, otype |-> "none",
     sel |-> [kind |-> "raise", agent |-> "none"],
     outcome |-> "none", raisedAt |-> "none", task |-> "none", selected_agent |-> "none",
     mapped |-> FALSE, events |-> <<>>, saved |-> FALSE]

\* The record kept of one decide_next_task call.
DecideRecord(current_state, otype, sel, faults) ==
    LET d == decide_next_task(current_state, otype, sel, faults)
    IN  [called |-> TRUE, state |-> current_state, otype |-> otype, sel |-> sel,
         outcome |-> d.outcome, raisedAt |-> d.raisedAt, task |-> d.task,
         selected_agent |-> d.selected_agent, mapped |-> d.mapped,
         events |-> d.events, saved |-> d.saved]

-----------------------------------------------------------------------------
(* Stage methods of ResearchCopilot *)

NoCall ==
    [stage |-> "none", before |-> InitialPipelineState, guard |-> FALSE,
     decideCalls |-> 0, decided |-> "none", executed |-> FALSE,
     result |-> "none", ret |-> "none",
     files |-> <<>>, papers |-> <<>>, failure_events |-> <<>>, events |-> <<>>]

CallRecord(stage, guard, decideCalls, decided, executed, result, ret) ==
    [stage |-> stage, before |-> pipeline_state, guard |-> guard,
     decideCalls |-> decideCalls, decided |-> decided, executed |-> executed,
     result |-> result, ret |-> ret,
     files |-> <<>>, papers |-> <<>>, failure_events |-> <<>>, events |-> <<>>]

\* The PDF files of the folder: for each, whether PDFParser.extract_text_from_pdf
\* returns success (it catches every exception and then returns success False).
FolderOutcomes == UNION {[1..k -> BOOLEAN] : k \in 0..MaxPapers}

\* The numbers j >= i of the files whose extraction succeeded (want = TRUE) or
\* failed (want = FALSE), in the order of the loop
RECURSIVE FilesWith(_, _, _)
FilesWith(files, i, want) ==
    IF i > Len(files) THEN <<>>
    ELSE (IF files[i] = want THEN <<i>> ELSE <<>>) \o FilesWith(files, i + 1, want)

\* The loop that gives up the batch when a file cannot be extracted.
agent_parse_papers_all_or_nothing(files) ==
    [papers |-> IF \A i \in 1..Len(files) : files[i] THEN FilesWith(files, 1, TRUE) ELSE <<>>,
     failure_events |-> FilesWith(files, 1, FALSE)]

\* PDFParserAgent.parse_papers, the loop over the files (lines 36-72): the papers it
\* appends and the files for which it logs a tool_result event with success False
agent_parse_papers(files) ==
    [papers |-> FilesWith(files, 1, TRUE),
     failure_events |-> FilesWith(files, 1, FALSE)]

\* The record of a stage invocation with the events it appended to the trace
WithEvents(call, events) == [call EXCEPT !.events = events]

\* The events PDFParserAgent.parse_papers logs for the files from number i on:
\* tool_call, then parsed_paper_saved and tool_result with success True, or
\* tool_result with success False
RECURSIVE file_events(_, _)
file_events(files, i) ==
    IF i > Len(files) THEN <<>>
    ELSE <<AgentEvent("tool_call", "PDFParserAgent", "none")>>
         \o (IF files[i]
             THEN <<AgentEvent("parsed_paper_saved", "PDFParserAgent", "none"),
                    AgentEvent("tool_result", "PDFParserAgent", "True")>>
             ELSE <<AgentEvent("tool_result", "PDFParserAgent", "False")>>)
         \o file_events(files, i + 1)

\* All the events of PDFParserAgent.parse_papers (lines 27-75, 142-146)
parse_events(files) ==
    <<AgentEvent("agent_call", "PDFParserAgent", "none")>>
        \o file_events(files, 1)
        \o <<TraceEntry("parsing_summary_saved",
                         [agent |-> "PDFParserAgent",
                          total_papers |-> Len(FilesWith(files, 1, TRUE))])>>

\* The events of one summarize_paper, synthesize_insights or generate_mini_survey
agent_events(agent_name) ==
    <<AgentEvent("agent_call", agent_name, "none"),
      AgentEvent("llm_call", agent_name, "none"),
      AgentEvent("agent_result", agent_name, "True")>>

\* The events of summarize_all_papers on n papers
RECURSIVE summarize_events(_)
summarize_events(n) ==
    IF n = 0 THEN <<>> ELSE agent_events("SummarizerAgent") \o summarize_events(n - 1)

\* PDFParserAgent.parse_papers: raises (a storage call failed), or returns the
\* list of the papers it could extract.
ParseWork ==
    {[raises |-> TRUE, files |-> <<>>]}
        \cup {[raises |-> FALSE, files |-> f] : f \in FolderOutcomes}

\* summarize_all_papers / synthesize_insights / generate_mini_survey: raise or return.
AgentWork == [raises : BOOLEAN]

\* The flag update with the truthiness test forgotten: the flag is set whatever the result.
flag_after_result_unconditional(state, flag, result_nonempty) ==
    [state EXCEPT ![flag] = TRUE]

\* The flag update written as an assignment of bool(result).
flag_after_result_assigned(state, flag, result_nonempty) ==
    [state EXCEPT ![flag] = result_nonempty]

\* "if <result>: self.pipeline_state[flag] = True" - otherwise the state is left alone
flag_after_result(state, flag, result_nonempty) ==
    IF result_nonempty THEN [state EXCEPT ![flag] = TRUE] ELSE state

\* The test of the decision left out: the work runs whatever the router chose.
chose_other_ignored(next_task, stage) == FALSE

\* "if next_task != '<stage>':" - the router chose another task than the stage
chose_other(next_task, stage) == next_task # stage

Truth(b) == IF b THEN "True" ELSE "False"

Emptiness(nonempty) == IF nonempty THEN "nonempty" ELSE "empty"

parse_papers(sel, faults) ==
    LET d == DecideRecord(pipeline_state, orchestrator_type, sel, faults)
        after_decide == state_after_decide_next_task(pipeline_state, orchestrator_type, sel, faults)
        Skip(guard, calls, decided, ret) ==
            /\ lastCall' = WithEvents(CallRecord("parse_papers", guard, calls, decided, FALSE, "none", ret),
                                      IF calls = 1 THEN d.events ELSE <<>>)
            /\ pipeline_state' = (IF calls = 1 THEN after_decide ELSE pipeline_state)
            /\ UNCHANGED parsed_papers
    IN  /\ UNCHANGED <<summaries, synthesis, survey>>
        /\ lastDecide' = d
        /\ IF d.outcome = "raised"
           THEN Skip(TRUE, 1, "none", "raised")
           ELSE IF chose_other(d.task, "parse_papers")
           THEN Skip(TRUE, 1, d.task, "False")
           ELSE \E work \in ParseWork :
                   IF work.raises
                   THEN /\ lastCall' = WithEvents(CallRecord("parse_papers", TRUE, 1, d.task, TRUE, "raised", "raised"),
                                                  d.events)
                        /\ pipeline_state' = after_decide
                        /\ UNCHANGED parsed_papers
                   ELSE LET r == agent_parse_papers(work.files)
                            n == Len(r.papers)
                        IN  /\ parsed_papers' = n
                            /\ pipeline_state' = flag_after_result(after_decide, "papers_parsed", n > 0)
                            /\ lastCall' = [CallRecord("parse_papers", TRUE, 1, d.task, TRUE,
                                                         Emptiness(n > 0), Truth(n > 0))
                                               EXCEPT !.files = work.files,
                                                      !.papers = r.papers,
                                                      !.failure_events = r.failure_events,
                                                      !.events = d.events \o parse_events(work.files)]

\* summarize_all_papers returns one summary per parsed paper
generate_summaries(sel, faults) ==
    LET d == DecideRecord(pipeline_state, orchestrator_type, sel, faults)
        after_decide == state_after_decide_next_task(pipeline_state, orchestrator_type, sel, faults)
        Skip(guard, calls, decided, ret) ==
            /\ lastCall' = WithEvents(CallRecord("generate_summaries", guard, calls, decided, FALSE, "none", ret),
                                      IF calls = 1 THEN d.events ELSE <<>>)
            /\ pipeline_state' = (IF calls = 1 THEN after_decide ELSE pipeline_state)
            /\ UNCHANGED summaries
    IN  /\ UNCHANGED <<parsed_papers, synthesis, survey>>
        /\ IF ~pipeline_state["papers_parsed"]
           THEN Skip(FALSE, 0, "none", "False") /\ UNCHANGED lastDecide
           ELSE /\ lastDecide' = d
                /\ IF d.outcome = "raised"
                   THEN Skip(TRUE, 1, "none", "raised")
                   ELSE IF chose_other(d.task, "generate_summaries")
                   THEN Skip(TRUE, 1, d.task, "False")
                   ELSE \E work \in AgentWork :
                        IF work.raises
                        THEN /\ lastCall' = WithEvents(CallRecord("generate_summaries", TRUE, 1, d.task, TRUE, "raised", "raised"),
                                                       d.events)
                             /\ pipeline_state' = after_decide
                             /\ UNCHANGED summaries
                        ELSE /\ summaries' = parsed_papers
                             /\ pipeline_state' = flag_after_result(after_decide, "summaries_generated", parsed_papers > 0)
                             /\ lastCall' = WithEvents(
                                                CallRecord("generate_summaries", TRUE, 1, d.task, TRUE,
                                                           Emptiness(parsed_papers > 0), Truth(parsed_papers > 0)),
                                                d.events \o summarize_events(parsed_papers))

\* synthesize_insights without the test of summaries_generated at its top.
synthesize_insights_unguarded(sel, faults) ==
    LET d == DecideRecord(pipeline_state, orchestrator_type, sel, faults)
        after_decide == state_after_decide_next_task(pipeline_state, orchestrator_type, sel, faults)
        Skip(guard, calls, decided, ret) ==
            /\ lastCall' = WithEvents(CallRecord("synthesize_insights", guard, calls, decided, FALSE, "none", ret),
                                      IF calls = 1 THEN d.events ELSE <<>>)
            /\ pipeline_state' = (IF calls = 1 THEN after_decide ELSE pipeline_state)
            /\ UNCHANGED synthesis
    IN  /\ UNCHANGED <<parsed_papers, summaries, survey>>
        /\ IF FALSE
           THEN Skip(FALSE, 0, "none", "False") /\ UNCHANGED lastDecide
           ELSE /\ lastDecide' = d
                /\ IF d.outcome = "raised"
                   THEN Skip(TRUE, 1, "none", "raised")
                   ELSE IF chose_other(d.task, "synthesize_insights")
                   THEN Skip(TRUE, 1, d.task, "False")
                   ELSE \E work \in AgentWork :
                        IF work.raises
                        THEN /\ lastCall' = WithEvents(CallRecord("synthesize_insights", TRUE, 1, d.task, TRUE, "raised", "raised"),
                                                       d.events)
                             /\ pipeline_state' = after_decide
                             /\ UNCHANGED synthesis
                        ELSE /\ synthesis' = "dict"
                             /\ pipeline_state' = flag_after_result(after_decide, "synthesis_done", TRUE)
                             /\ lastCall' = WithEvents(
                                                CallRecord("synthesize_insights", TRUE, 1, d.task, TRUE, "nonempty", "True"),
                                                d.events \o agent_events("SynthesizerAgent"))

\* the synthesis dict always has its three keys, so it is truthy
synthesize_insights(sel, faults) ==
    LET d == DecideRecord(pipeline_state, orchestrator_type, sel, faults)
        after_decide == state_after_decide_next_task(pipeline_state, orchestrator_type, sel, faults)
        Skip(guard, calls, decided, ret) ==
            /\ lastCall' = WithEvents(CallRecord("synthesize_insights", guard, calls, decided, FALSE, "none", ret),
                                      IF calls = 1 THEN d.events ELSE <<>>)
            /\ pipeline_state' = (IF calls = 1 THEN after_decide ELSE pipeline_state)
            /\ UNCHANGED synthesis
    IN  /\ UNCHANGED <<parsed_papers, summaries, survey>>
        /\ IF ~pipeline_state["summaries_generated"]
           THEN Skip(FALSE, 0, "none", "False") /\ UNCHANGED lastDecide
           ELSE /\ lastDecide' = d
                /\ IF d.outcome = "raised"
                   THEN Skip(TRUE, 1, "none", "raised")
                   ELSE IF chose_other(d.task, "synthesize_insights")
                   THEN Skip(TRUE, 1, d.task, "False")
                   ELSE \E work \in AgentWork :
                        IF work.raises
                        THEN /\ lastCall' = WithEvents(CallRecord("synthesize_insights", TRUE, 1, d.task, TRUE, "raised", "raised"),
                                                       d.events)
                             /\ pipeline_state' = after_decide
                             /\ UNCHANGED synthesis
                        ELSE /\ synthesis' = "dict"
                             /\ pipeline_state' = flag_after_result(after_decide, "synthesis_done", TRUE)
                             /\ lastCall' = WithEvents(
                                                CallRecord("synthesize_insights", TRUE, 1, d.task, TRUE, "nonempty", "True"),
                                                d.events \o agent_events("SynthesizerAgent"))

\* the survey text always ends with the references section, so it is non-empty
write_survey(sel, faults) ==
    LET d == DecideRecord(pipeline_state, orchestrator_type, sel, faults)
        after_decide == state_after_decide_next_task(pipeline_state, orchestrator_type, sel, faults)
        Skip(guard, calls, decided, ret) ==
            /\ lastCall' = WithEvents(CallRecord("write_survey", guard, calls, decided, FALSE, "none", ret),
                                      IF calls = 1 THEN d.events ELSE <<>>)
            /\ pipeline_state' = (IF calls = 1 THEN after_decide ELSE pipeline_state)
            /\ UNCHANGED survey
    IN  /\ UNCHANGED <<parsed_papers, summaries, synthesis>>
        /\ IF ~pipeline_state["synthesis_done"]
           THEN Skip(FALSE, 0, "none", "False") /\ UNCHANGED lastDecide
           ELSE /\ lastDecide' = d
                /\ IF d.outcome = "raised"
                   THEN Skip(TRUE, 1, "none", "raised")
                   ELSE IF chose_other(d.task, "write_survey")
                   THEN Skip(TRUE, 1, d.task, "False")
                   ELSE \E work \in AgentWork :
                        IF work.raises
                        THEN /\ lastCall' = WithEvents(CallRecord("write_survey", TRUE, 1, d.task, TRUE, "raised", "raised"),
                                                       d.events)
                             /\ pipeline_state' = after_decide
                             /\ UNCHANGED survey
                        ELSE /\ survey' = "text"
                             /\ pipeline_state' = flag_after_result(after_decide, "survey_written", TRUE)
                             /\ lastCall' = WithEvents(
                                                CallRecord("write_survey", TRUE, 1, d.task, TRUE, "nonempty", "True"),
                                                d.events \o agent_events("SurveyWriterAgent"))

-----------------------------------------------------------------------------
(* initialize_run, run_full_pipeline, interactive_mode, main *)

NoRun ==
    [active |-> FALSE, finished |-> FALSE, start |-> InitialPipelineState,
     attempted |-> <<>>, executed |-> <<>>, workOk |-> TRUE, failed |-> 0,
     completions |-> [st \in Stages |-> 0]]

\* An event by which the trace shows that a stage has completed: agent_result
\* with success True, or parsing_summary_saved with at least one paper
CompletionEvent(e) ==
    \/ e.event_type = "agent_result" /\ e.data.success = "True"
    \/ e.event_type = "parsing_summary_saved" /\ e.data.total_papers > 0

\* Number of such events among those a stage invocation appended
CompletionEvents(call) ==
    Cardinality({i \in 1..Len(call.events) : CompletionEvent(call.events[i])})

\* initialize_run: the orchestrator is built with the type the Moya constructor allows;
\* a storage failure while it logs leaves the previous orchestrator in place and raises.
initialize_run(storageFails) ==
    orchestrator_type' =
        IF storageFails THEN orchestrator_type
        ELSE IF moya_accepts THEN "MultiAgent" ELSE "Simple"

\* run_full_pipeline up to "success = True" (lines 200-209)
run_full_pipeline_begin(storageFails) ==
    /\ initialize_run(storageFails)
    /\ success' = TRUE
    /\ run' = [NoRun EXCEPT !.active = TRUE, !.start = pipeline_state]
    /\ pc' = IF storageFails THEN "crashed" ELSE "run_parse"
    /\ UNCHANGED <<pipeline_state, parsed_papers, summaries, synthesis, survey,
                   moya_accepts, lastDecide, lastCall, lastRule>>

\* A run that drops what the stage returned: "self.stage()" in place of
\* "success = success and self.stage()".
AfterStage_result_dropped(next) ==
    /\ success' = TRUE
    /\ pc' = IF lastCall'.ret = "raised" THEN "crashed" ELSE next
    /\ run' = [run EXCEPT
                 !.attempted = Append(@, lastCall'.stage),
                 !.executed = IF lastCall'.executed THEN Append(@, lastCall'.stage) ELSE @,
                 !.workOk = @ /\ (lastCall'.executed => lastCall'.result = "nonempty"),
                 !.failed = @ + Len(lastCall'.failure_events),
                 !.completions[lastCall'.stage] = @ + CompletionEvents(lastCall')]
    /\ UNCHANGED <<orchestrator_type, moya_accepts, lastRule>>

\* What a stage call of run_full_pipeline leaves in success, pc and run.
AfterStage(next) ==
    /\ success' = (lastCall'.ret = "True")
    /\ pc' = IF lastCall'.ret = "raised" THEN "crashed" ELSE next
    /\ run' = [run EXCEPT
                 !.attempted = Append(@, lastCall'.stage),
                 !.executed = IF lastCall'.executed THEN Append(@, lastCall'.stage) ELSE @,
                 !.workOk = @ /\ (lastCall'.executed => lastCall'.result = "nonempty"),
                 !.failed = @ + Len(lastCall'.failure_events),
                 !.completions[lastCall'.stage] = @ + CompletionEvents(lastCall')]
    /\ UNCHANGED <<orchestrator_type, moya_accepts, lastRule>>

\* "success and ..." with success false: the stage method is not called.
ShortCircuit(next) ==
    /\ pc' = next
    /\ UNCHANGED <<pipeline_state, parsed_papers, summaries, synthesis, survey,
                   orchestrator_type, moya_accepts, success, lastDecide, lastCall,
                   lastRule, run>>

StartCommandLine ==
    /\ pc = "start"
    /\ \E storageFails \in BOOLEAN : run_full_pipeline_begin(storageFails)
    /\ UNCHANGED <<interactiveVars, agentVars>>

StartInteractive ==
    /\ pc = "start"
    /\ \E storageFails \in BOOLEAN :
          /\ initialize_run(storageFails)
          /\ pc' = IF storageFails THEN "crashed" ELSE "menu"
    /\ UNCHANGED <<pipeline_state, parsed_papers, summaries, synthesis, survey,
                   moya_accepts, success, lastDecide, lastCall, lastRule, run>>
    /\ UNCHANGED <<interactiveVars, agentVars>>

RunParsePapers ==
    /\ pc = "run_parse"
    /\ IF success
       THEN \E sel \in SelectorOutcomes(orchestrator_type), faults \in StorageFaults :
               parse_papers(sel, faults) /\ AfterStage("run_summaries")
       ELSE ShortCircuit("run_summaries")
    /\ UNCHANGED <<interactiveVars, agentVars>>

RunGenerateSummaries ==
    /\ pc = "run_summaries"
    /\ IF success
       THEN \E sel \in SelectorOutcomes(orchestrator_type), faults \in StorageFaults :
               generate_summaries(sel, faults) /\ AfterStage("run_synthesis")
       ELSE ShortCircuit("run_synthesis")
    /\ UNCHANGED <<interactiveVars, agentVars>>

RunSynthesizeInsights ==
    /\ pc = "run_synthesis"
    /\ IF success
       THEN \E sel \in SelectorOutcomes(orchestrator_type), faults \in StorageFaults :
               synthesize_insights(sel, faults) /\ AfterStage("run_survey")
       ELSE ShortCircuit("run_survey")
    /\ UNCHANGED <<interactiveVars, agentVars>>

RunWriteSurvey ==
    /\ pc = "run_survey"
    /\ IF success
       THEN \E sel \in SelectorOutcomes(orchestrator_type), faults \in StorageFaults :
               write_survey(sel, faults) /\ AfterStage("run_end")
       ELSE ShortCircuit("run_end")
    /\ UNCHANGED <<interactiveVars, agentVars>>

\* lines 215-224: the closing banner; main and interactive_mode then return
RunEnd ==
    /\ pc = "run_end"
    /\ pc' = "exited"
    /\ run' = [run EXCEPT !.finished = TRUE]
    /\ UNCHANGED <<pipeline_state, parsed_papers, summaries, synthesis, survey,
                   orchestrator_type, moya_accepts, success, lastDecide, lastCall, lastRule>>
    /\ UNCHANGED <<interactiveVars, agentVars>>

\* What a stage call from the menu leaves behind: an exception ends the process.
AfterMenuChoice ==
    /\ pc' = IF lastCall'.ret = "raised" THEN "crashed" ELSE "menu"
    /\ UNCHANGED <<orchestrator_type, moya_accepts, success, lastRule, run>>

MenuParsePapers ==
    /\ pc = "menu"
    /\ \E sel \in SelectorOutcomes(orchestrator_type), faults \in StorageFaults :
          parse_papers(sel, faults)
    /\ AfterMenuChoice
    /\ UNCHANGED <<interactiveVars, agentVars>>

MenuGenerateSummaries ==
    /\ pc = "menu"
    /\ \E sel \in SelectorOutcomes(orchestrator_type), faults \in StorageFaults :
          generate_summaries(sel, faults)
    /\ AfterMenuChoice
    /\ UNCHANGED <<interactiveVars, agentVars>>

MenuSynthesizeInsights ==
    /\ pc = "menu"
    /\ \E sel \in SelectorOutcomes(orchestrator_type), faults \in StorageFaults :
          synthesize_insights(sel, faults)
    /\ AfterMenuChoice
    /\ UNCHANGED <<interactiveVars, agentVars>>

MenuWriteSurvey ==
    /\ pc = "menu"
    /\ \E sel \in SelectorOutcomes(orchestrator_type), faults \in StorageFaults :
          write_survey(sel, faults)
    /\ AfterMenuChoice
    /\ UNCHANGED <<interactiveVars, agentVars>>

MenuRunFullPipeline ==
    /\ pc = "menu"
    /\ \E storageFails \in BOOLEAN : run_full_pipeline_begin(storageFails)
    /\ UNCHANGED <<interactiveVars, agentVars>>

MenuExit ==
    /\ pc = "menu"
    /\ pc' = "exited"
    /\ UNCHANGED <<pipeline_state, parsed_papers, summaries, synthesis, survey,
                   orchestrator_type, moya_accepts, success, lastDecide, lastCall,
                   lastRule, run>>
    /\ UNCHANGED <<interactiveVars, agentVars>>

-----------------------------------------------------------------------------
(* research_copilot_interactive.py: the values before anything has run *)

\* Number of callers that may append to one trace file at the same time.
NumCallers == 2

Callers == 1..NumCallers

\* last_error = None
NoError == [raised_by |-> "None"]

NoParse ==
    [called |-> FALSE, outcomes |-> <<>>, invoked |-> <<>>, outcome |-> "none",
     parser |-> "none", raw |-> <<>>, text |-> <<>>, error |-> NoError, saved |-> FALSE,
     save |-> [save_parsed |-> FALSE, output_dir |-> FALSE, fails |-> FALSE],
     parsed_files |-> <<>>, steps |-> <<>>, text_length |-> 0]

NoFix == [called |-> FALSE, out |-> <<>>, again |-> FALSE, out_again |-> <<>>]

NoBatch ==
    [pc |-> "idle", next_file |-> 1, parsed_papers |-> <<>>, summaries |-> <<>>,
     synthesis |-> "none", survey |-> "none", error |-> NoError]

\* No agent has asked the language model yet.
NoLlm ==
    [called |-> FALSE, agent |-> "none", prompt_length |-> 0, failed |-> FALSE,
     response_length |-> 0, outcome |-> "none", result |-> "none",
     saved |-> <<>>, events |-> <<>>]

\* No trace viewer has read the file yet.
NoRead == [called |-> FALSE, file |-> <<>>, outcome |-> "none", entries |-> <<>>]

AgentsIdle ==
    /\ lastLlm = NoLlm
    /\ lastRead = NoRead

InteractiveIdle ==
    /\ parsers = <<>>
    /\ lastParse = NoParse
    /\ trace_file = <<>>
    /\ text = <<>>
    /\ fixed = NoFix
    /\ pdf_files = <<>>
    /\ batch = NoBatch
    /\ writers = [c \in Callers |-> <<>>]
    /\ appended = 0

Init ==
    /\ pc = "start"
    /\ pipeline_state = InitialPipelineState
    /\ parsed_papers = 0
    /\ summaries = 0
    /\ synthesis = "none"
    /\ survey = "none"
    /\ orchestrator_type = "none"
    /\ moya_accepts \in BOOLEAN
    /\ success = TRUE
    /\ lastDecide = NoDecide
    /\ lastCall = NoCall
    /\ lastRule = [called |-> FALSE, state |-> InitialPipelineState, task |-> "none"]
    /\ run = NoRun
    /\ InteractiveIdle
    /\ AgentsIdle

Next ==
    \/ StartCommandLine
    \/ StartInteractive
    \/ RunParsePapers
    \/ RunGenerateSummaries
    \/ RunSynthesizeInsights
    \/ RunWriteSurvey
    \/ RunEnd
    \/ MenuParsePapers
    \/ MenuGenerateSummaries
    \/ MenuSynthesizeInsights
    \/ MenuWriteSurvey
    \/ MenuRunFullPipeline
    \/ MenuExit

Spec == Init /\ [][Next]_vars

-----------------------------------------------------------------------------
(* The router on its own: decide_next_task and _rule_based_decision applied *)
(* to every flag combination, for both orchestrator types.                  *)

InitRouter ==
    /\ pc = "router"
    /\ pipeline_state \in AllStates
    /\ parsed_papers = 0
    /\ summaries = 0
    /\ synthesis = "none"
    /\ survey = "none"
    /\ moya_accepts \in BOOLEAN
    /\ orchestrator_type = IF moya_accepts THEN "MultiAgent" ELSE "Simple"
    /\ success = TRUE
    /\ lastDecide = NoDecide
    /\ lastCall = NoCall
    /\ lastRule = [called |-> FALSE, state |-> InitialPipelineState, task |-> "none"]
    /\ run = NoRun
    /\ InteractiveIdle
    /\ AgentsIdle

CallDecideNextTask ==
    /\ pc = "router"
    /\ \E sel \in SelectorOutcomes(orchestrator_type), faults \in StorageFaults :
          /\ lastDecide' = DecideRecord(pipeline_state, orchestrator_type, sel, faults)
          /\ pipeline_state' = state_after_decide_next_task(pipeline_state, orchestrator_type,
                                                            sel, faults)
    /\ UNCHANGED <<pc, parsed_papers, summaries, synthesis, survey,
                   orchestrator_type, moya_accepts, success, lastCall, lastRule, run>>
    /\ UNCHANGED <<interactiveVars, agentVars>>

CallRuleBasedDecision ==
    /\ pc = "router"
    /\ lastRule' = [called |-> TRUE, state |-> pipeline_state,
                    task |-> rule_based_decision(pipeline_state)]
    /\ pipeline_state' = state_after_rule_based_decision(pipeline_state)
    /\ UNCHANGED <<pc, parsed_papers, summaries, synthesis, survey,
                   orchestrator_type, moya_accepts, success, lastDecide, lastCall, run>>
    /\ UNCHANGED <<interactiveVars, agentVars>>

NextRouter ==
    \/ CallDecideNextTask
    \/ CallRuleBasedDecision

SpecRouter == InitRouter /\ [][NextRouter]_vars

-----------------------------------------------------------------------------
(* PDFParser of research_copilot_interactive.py: _fix_spacing and parse_pdf. *)
(* A text is a sequence of one-character strings.                            *)

\* The main.py process at rest, for the specifications of the other programs.
MainIdle(position) ==
    /\ pc = position
    /\ pipeline_state = InitialPipelineState
    /\ parsed_papers = 0
    /\ summaries = 0
    /\ synthesis = "none"
    /\ survey = "none"
    /\ orchestrator_type = "none"
    /\ moya_accepts = FALSE
    /\ success = TRUE
    /\ lastDecide = NoDecide
    /\ lastCall = NoCall
    /\ lastRule = [called |-> FALSE, state |-> InitialPipelineState, task |-> "none"]
    /\ run = NoRun

\* [a-z]
Lower ==
    {"a", "b", "c", "d", "e", "f", "g", "h", "i", "j", "k", "l", "m",
     "n", "o", "p", "q", "r", "s", "t", "u", "v", "w", "x", "y", "z"}

\* [A-Z]
Upper ==
    {"A", "B", "C", "D", "E", "F", "G", "H", "I", "J", "K", "L", "M",
     "N", "O", "P", "Q", "R", "S", "T", "U", "V", "W", "X", "Y", "Z"}

\* s without the run of character c it starts with
RECURSIVE drop_run(_, _)
drop_run(s, c) ==
    IF s # <<>> /\ s[1] = c THEN drop_run(Tail(s), c) ELSE s

\* re.sub(r'\.([A-Z])', r'. \1', text)
RECURSIVE sub_period_upper(_)
sub_period_upper(s) ==
    IF s = <<>> THEN <<>>
    ELSE IF Len(s) >= 2 /\ s[1] = "." /\ s[2] \in Upper
    THEN <<".", " ", s[2]>> \o sub_period_upper(SubSeq(s, 3, Len(s)))
    ELSE <<s[1]>> \o sub_period_upper(Tail(s))

\* re.sub(r',([A-Za-z])', r', \1', text)
RECURSIVE sub_comma_letter(_)
sub_comma_letter(s) ==
    IF s = <<>> THEN <<>>
    ELSE IF Len(s) >= 2 /\ s[1] = "," /\ s[2] \in (Upper \cup Lower)
    THEN <<",", " ", s[2]>> \o sub_comma_letter(SubSeq(s, 3, Len(s)))
    ELSE <<s[1]>> \o sub_comma_letter(Tail(s))

\* The substitution with the space left out of the replacement: r'\1\2'.
sub_lower_upper_joined(s) == s

\* re.sub(r'([a-z])([A-Z])', r'\1 \2', text)
RECURSIVE sub_lower_upper(_)
sub_lower_upper(s) ==
    IF s = <<>> THEN <<>>
    ELSE IF Len(s) >= 2 /\ s[1] \in Lower /\ s[2] \in Upper
    THEN <<s[1], " ", s[2]>> \o sub_lower_upper(SubSeq(s, 3, Len(s)))
    ELSE <<s[1]>> \o sub_lower_upper(Tail(s))

\* re.sub(r' +', ' ', text)
RECURSIVE sub_spaces(_)
sub_spaces(s) ==
    IF s = <<>> THEN <<>>
    ELSE IF s[1] = " "
    THEN <<" ">> \o sub_spaces(drop_run(s, " "))
    ELSE <<s[1]>> \o sub_spaces(Tail(s))

\* Only one newline taken from a run of three or more that starts the text.
sub_newlines_one_removed(s) ==
    IF Len(s) >= 3 /\ s[1] = "\n" /\ s[2] = "\n" /\ s[3] = "\n" THEN Tail(s) ELSE s

\* re.sub(r'\n\n\n+', '\n\n', text)
RECURSIVE sub_newlines(_)
sub_newlines(s) ==
    IF s = <<>> THEN <<>>
    ELSE IF Len(s) >= 3 /\ s[1] = "\n" /\ s[2] = "\n" /\ s[3] = "\n"
    THEN <<"\n", "\n">> \o sub_newlines(drop_run(s, "\n"))
    ELSE <<s[1]>> \o sub_newlines(Tail(s))

fix_spacing(s) ==
    sub_newlines(sub_spaces(sub_lower_upper(sub_comma_letter(sub_period_upper(s)))))

\* Longest text given to _fix_spacing.
MaxTextLen == 4

\* One lowercase letter, one uppercase letter, space, tab, newline, period, comma.
Alphabet == {"a", "B", " ", "\t", "\n", ".", ","}

Texts == UNION {[1..n -> Alphabet] : n \in 0..MaxTextLen}

InitSpacing ==
    /\ MainIdle("spacing")
    /\ AgentsIdle
    /\ text \in Texts
    /\ parsers = <<>>
    /\ lastParse = NoParse
    /\ trace_file = <<>>
    /\ fixed = NoFix
    /\ pdf_files = <<>>
    /\ batch = NoBatch
    /\ writers = [c \in Callers |-> <<>>]
    /\ appended = 0

CallFixSpacing ==
    /\ pc = "spacing"
    /\ ~fixed.called
    /\ fixed' = [NoFix EXCEPT !.called = TRUE, !.out = fix_spacing(text)]
    /\ UNCHANGED <<mainVars, agentVars, parsers, lastParse, trace_file, text, pdf_files, batch,
                   writers, appended>>

\* _fix_spacing applied to the text a first call returned
CallFixSpacingAgain ==
    /\ pc = "spacing"
    /\ fixed.called
    /\ ~fixed.again
    /\ fixed' = [fixed EXCEPT !.again = TRUE, !.out_again = fix_spacing(fixed.out)]
    /\ UNCHANGED <<mainVars, agentVars, parsers, lastParse, trace_file, text, pdf_files, batch,
                   writers, appended>>

NextSpacing ==
    \/ CallFixSpacing
    \/ CallFixSpacingAgain

SpecSpacing == InitSpacing /\ [][NextSpacing]_vars

-----------------------------------------------------------------------------
(* PDFParser.parse_pdf: the backends tried in order *)

\* The order of the three import attempts of PDFParser.__init__
BackendOrder == <<"pymupdf", "pdfplumber", "PyPDF2">>

Backends == {BackendOrder[i] : i \in 1..Len(BackendOrder)}

\* PDFParser.__init__: the backends that could be imported, in that order; with
\* none of them the constructor raises ImportError and there is no parser.
ParserLists ==
    {SelectSeq(BackendOrder, LAMBDA b : b \in S) : S \in (SUBSET Backends) \ {{}}}

\* "hello  world", with two spaces
HelloWorld == <<"h", "e", "l", "l", "o", " ", " ", "w", "o", "r", "l", "d">>

\* The texts a backend may extract from the file; <<>> is the empty text.
BackendTexts == {<<>>, HelloWorld, <<"a", "B">>, <<"x">>}

\* The exception raised by one backend
BackendError(b) == [raised_by |-> b]

\* What a _parse_with_<backend> call does on the file: it raises, or it returns a
\* dict whose "parser" is its own name and whose "text" is what it extracted.
BackendOutcomes(b) ==
    {[kind |-> "raises", error |-> BackendError(b), text |-> <<>>]}
        \cup {[kind |-> "returns", error |-> NoError, text |-> t] : t \in BackendTexts}

OutcomeFunctions(ps) ==
    LET used == {ps[i] : i \in 1..Len(ps)}
    IN  {f \in [used -> UNION {BackendOutcomes(b) : b \in used}] :
            \A b \in used : f[b] \in BackendOutcomes(b)}

\* result = None
NoResult == [none |-> TRUE, parser |-> "none", text |-> <<>>]

\* The test with the length check forgotten: "if result:".
accepted_any(result) == ~result.none

\* "result and len(result.get("text", "")) > 0"
accepted(result) == ~result.none /\ Len(result.text) > 0

\* The handler keeping the first error: "last_error = last_error or e".
error_after_failure_first(last_error, e) ==
    IF last_error = NoError THEN e ELSE last_error

\* "except Exception as e: last_error = e"
error_after_failure(last_error, e) == e

\* The for loop of parse_pdf from parser number i on (lines 114-129)
RECURSIVE try_parsers(_, _, _, _, _, _)
try_parsers(ps, outcome, i, result, last_error, invoked) ==
    IF i > Len(ps)
    THEN [result |-> result, last_error |-> last_error, invoked |-> invoked]
    ELSE LET parser_name == ps[i]
             o == outcome[parser_name]
             returned == [none |-> FALSE, parser |-> parser_name, text |-> o.text]
         IN  IF o.kind = "raises"
             THEN try_parsers(ps, outcome, i + 1, result,
                              error_after_failure(last_error, o.error),
                              Append(invoked, parser_name))
             ELSE IF accepted(returned)
             THEN [result |-> returned, last_error |-> last_error,
                   invoked |-> Append(invoked, parser_name)]
             ELSE try_parsers(ps, outcome, i + 1, returned, last_error,
                              Append(invoked, parser_name))

\* One TraceLogger.log call by a single caller: the whole line reaches the file.
TraceLine(agent_name, action, data) ==
    [entry |-> [agent |-> agent_name, action |-> action, data |-> data],
     part |-> 1, parts |-> 1]

\* How parse_pdf is set up to save: the save_parsed attribute of the parser,
\* whether the caller gives an output_dir, and whether writing the file fails
SaveInputs == [save_parsed : BOOLEAN, output_dir : BOOLEAN, fails : BOOLEAN]

\* Saving whenever a directory is given, without looking at save_parsed.
save_parsed_content_unconditional(save, parser_name, content) ==
    IF save.output_dir /\ ~save.fails
    THEN <<[parser |-> parser_name, text |-> content]>>
    ELSE <<>>

\* "if self.save_parsed and output_dir:" (lines 142-154): the files written; an
\* exception while writing is caught and only logged as a warning
save_parsed_content(save, parser_name, content) ==
    IF save.save_parsed /\ save.output_dir /\ ~save.fails
    THEN <<[parser |-> parser_name, text |-> content]>>
    ELSE <<>>

\* Raising without a word in the trace.
failure_events_none(last_error) == <<>>

\* What is logged when no backend gave a text (lines 131-134), before the raise
failure_events(last_error) ==
    <<TraceLine("PDFParser", "parse_error", [error |-> last_error])>>

\* The steps of one parse_pdf call in program order: the events logged before
\* the loop, one attempt per backend invoked, the events logged after the loop
call_steps(before, invoked, after) ==
    [i \in 1..Len(before) |-> [kind |-> "log", name |-> before[i].entry.action]]
        \o [i \in 1..Len(invoked) |-> [kind |-> "attempt", name |-> invoked[i]]]
        \o [i \in 1..Len(after) |-> [kind |-> "log", name |-> after[i].entry.action]]

\* parse_pdf(pdf_path, output_dir): what it returns or raises, and what it logs
parse_pdf(ps, outcome, save) ==
    LET loop == try_parsers(ps, outcome, 1, NoResult, NoError, <<>>)
        parse_start == TraceLine("PDFParser", "parse_start", [available_parsers |-> ps])
    IN  IF ~accepted(loop.result)
        THEN [outcome |-> "raised", invoked |-> loop.invoked, parser |-> "none",
              raw |-> <<>>, text |-> <<>>, error |-> loop.last_error, saved |-> FALSE,
              parsed_files |-> <<>>, text_length |-> 0,
              events |-> <<parse_start>> \o failure_events(loop.last_error),
              steps |-> call_steps(<<parse_start>>, loop.invoked,
                                   failure_events(loop.last_error))]
        ELSE LET fixed_text == fix_spacing(loop.result.text)
                 written == save_parsed_content(save, loop.result.parser, fixed_text)
                 parse_complete == TraceLine("PDFParser", "parse_complete",
                                             [text_length |-> Len(fixed_text),
                                              parser |-> loop.result.parser])
             IN  [outcome |-> "returned", invoked |-> loop.invoked,
                  parser |-> loop.result.parser, raw |-> loop.result.text,
                  text |-> fixed_text, error |-> NoError, saved |-> written # <<>>,
                  parsed_files |-> written, text_length |-> Len(fixed_text),
                  events |-> <<parse_start, parse_complete>>,
                  steps |-> call_steps(<<parse_start>>, loop.invoked, <<parse_complete>>)]

InitChain ==
    /\ MainIdle("chain")
    /\ AgentsIdle
    /\ parsers \in ParserLists
    /\ lastParse = NoParse
    /\ trace_file = <<>>
    /\ text = <<>>
    /\ fixed = NoFix
    /\ pdf_files = <<>>
    /\ batch = NoBatch
    /\ writers = [c \in Callers |-> <<>>]
    /\ appended = 0

CallParsePdf ==
    /\ pc = "chain"
    /\ ~lastParse.called
    /\ \E outcome \in OutcomeFunctions(parsers), save \in SaveInputs :
          LET r == parse_pdf(parsers, outcome, save)
          IN  /\ lastParse' = [called |-> TRUE, outcomes |-> outcome, invoked |-> r.invoked,
                               outcome |-> r.outcome, parser |-> r.parser, raw |-> r.raw,
                               text |-> r.text, error |-> r.error, saved |-> r.saved,
                               save |-> save, parsed_files |-> r.parsed_files,
                               steps |-> r.steps, text_length |-> r.text_length]
              /\ trace_file' = trace_file \o r.events
    /\ UNCHANGED <<mainVars, agentVars, parsers, text, fixed, pdf_files, batch, writers, appended>>

NextChain == CallParsePdf

SpecChain == InitChain /\ [][NextChain]_vars

-----------------------------------------------------------------------------
(* TraceLogger.log_llm_interaction and ResearchCopilot.process_papers of       *)
(* research_copilot_interactive.py. Prompts and responses are modelled by      *)
(* their lengths.                                                              *)

\* prompt[:500]
PromptPrefix == 500

\* response[:200]
ResponsePreview == 200

\* len("...")
EllipsisLen == 3

\* len(hashlib.md5(...).hexdigest())
HashLen == 32

\* Length of the longest prompt or response of the language model.
MaxLlmLen == 1000

\* "s[:limit] + '...' if len(s) > limit else s", as a length
prefix_length(length, limit) ==
    IF length > limit THEN limit + EllipsisLen ELSE length

\* The entry built by log_llm_interaction (lines 50-65); the fields prompt,
\* response and response_preview hold the length of the string stored there.
llm_interaction_entry(agent_name, prompt_length, response_length) ==
    [agent |-> agent_name, action |-> "llm_interaction",
     data |-> [model |-> "model", temperature |-> "temperature", seed |-> "seed",
               prompt_length |-> prompt_length,
               response_length |-> response_length,
               prompt_hash |-> HashLen,
               prompt |-> prefix_length(prompt_length, PromptPrefix),
               response |-> response_length,
               response_preview |-> prefix_length(response_length, ResponsePreview)]]

\* One log_llm_interaction call by a single caller: the whole line reaches the file.
LlmTraceLine(agent_name, prompt_length, response_length) ==
    [entry |-> llm_interaction_entry(agent_name, prompt_length, response_length),
     part |-> 1, parts |-> 1]

\* Largest number of PDF files in the folder given to process_papers.
MaxFiles == 3

\* What the backends do on one file: each raises or extracts the text "x".
FileKinds(ps) ==
    {f \in OutcomeFunctions(ps) :
        \A b \in DOMAIN f : f[b].kind = "returns" => f[b].text = <<"x">>}

\* sorted(list(Path(pdf_folder).glob("*.pdf")))
Folders(ps) == UNION {[1..n -> FileKinds(ps)] : n \in 0..MaxFiles}

\* An ollama.chat call: it raises, or it answers with a text of some length.
LlmOutcomes ==
    {[raises |-> TRUE, length |-> 0], [raises |-> FALSE, length |-> MaxLlmLen]}

InitBatch ==
    /\ MainIdle("batch")
    /\ AgentsIdle
    /\ parsers \in ParserLists
    /\ pdf_files \in Folders(parsers)
    /\ batch = NoBatch
    /\ lastParse = NoParse
    /\ trace_file = <<>>
    /\ text = <<>>
    /\ fixed = NoFix
    /\ writers = [c \in Callers |-> <<>>]
    /\ appended = 0

\* ResearchCopilot.__init__ (the TraceLogger it builds empties the trace file)
\* and process_papers up to the parsing loop (lines 668-672)
ProcessPapersBegin ==
    /\ pc = "batch"
    /\ batch.pc = "idle"
    /\ trace_file' = <<>>
    /\ batch' = IF pdf_files = <<>>
                THEN [batch EXCEPT !.pc = "failed", !.error = [raised_by |-> "ValueError"]]
                ELSE [batch EXCEPT !.pc = "parse"]
    /\ UNCHANGED <<mainVars, agentVars, parsers, lastParse, text, fixed, pdf_files, writers, appended>>

\* One iteration of the parsing loop (lines 673-677); an exception of parse_pdf
\* is not caught here and ends process_papers.
ParseNextPdf ==
    /\ pc = "batch"
    /\ batch.pc = "parse"
    /\ \E saveFails \in BOOLEAN :
          LET save == [save_parsed |-> TRUE, output_dir |-> TRUE, fails |-> saveFails]
              r == parse_pdf(parsers, pdf_files[batch.next_file], save)
          IN  /\ lastParse' = [called |-> TRUE, outcomes |-> pdf_files[batch.next_file],
                               invoked |-> r.invoked, outcome |-> r.outcome,
                               parser |-> r.parser, raw |-> r.raw, text |-> r.text,
                               error |-> r.error, saved |-> r.saved,
                               save |-> save, parsed_files |-> r.parsed_files,
                               steps |-> r.steps, text_length |-> r.text_length]
              /\ trace_file' = trace_file \o r.events
              /\ batch' =
                    IF r.outcome = "raised"
                    THEN [batch EXCEPT !.pc = "failed", !.error = r.error]
                    ELSE [batch EXCEPT
                            !.parsed_papers = Append(@, batch.next_file),
                            !.next_file = @ + 1,
                            !.pc = IF batch.next_file = Len(pdf_files)
                                   THEN "summarize" ELSE "parse"]
    /\ UNCHANGED <<mainVars, agentVars, parsers, text, fixed, pdf_files, writers, appended>>

\* One iteration of the summarizing loop (lines 683-691): SummarizerAgent.summarize
\* logs the interaction, or logs the error and returns the emergency summary.
SummarizeNextPaper ==
    /\ pc = "batch"
    /\ batch.pc = "summarize"
    /\ \E llm \in LlmOutcomes :
          /\ trace_file' =
                Append(trace_file,
                       IF llm.raises
                       THEN TraceLine("SummarizerAgent", "error", [error |-> "ollama"])
                       ELSE LlmTraceLine("SummarizerAgent", MaxLlmLen, llm.length))
          /\ batch' = [batch EXCEPT
                         !.summaries = Append(@, IF llm.raises THEN "emergency" ELSE "llm"),
                         !.pc = IF Len(batch.summaries) + 1 = Len(batch.parsed_papers)
                                THEN "synthesize" ELSE "summarize"]
    /\ UNCHANGED <<mainVars, agentVars, parsers, lastParse, text, fixed, pdf_files, writers, appended>>

\* SynthesisAgent.synthesize (lines 696-700): an error of the model is returned
\* inside the dict and not logged.
SynthesizeSummaries ==
    /\ pc = "batch"
    /\ batch.pc = "synthesize"
    /\ \E llm \in LlmOutcomes :
          /\ trace_file' =
                IF llm.raises THEN trace_file
                ELSE Append(trace_file, LlmTraceLine("SynthesisAgent", MaxLlmLen, llm.length))
          /\ batch' = [batch EXCEPT
                         !.synthesis = IF llm.raises THEN "error" ELSE "parsed",
                         !.pc = "survey"]
    /\ UNCHANGED <<mainVars, agentVars, parsers, lastParse, text, fixed, pdf_files, writers, appended>>

\* SurveyGeneratorAgent.generate_survey and the write of the survey file (lines 705-708)
GenerateSurvey ==
    /\ pc = "batch"
    /\ batch.pc = "survey"
    /\ \E llm \in LlmOutcomes :
          /\ trace_file' =
                IF llm.raises THEN trace_file
                ELSE Append(trace_file,
                            LlmTraceLine("SurveyGeneratorAgent", MaxLlmLen, llm.length))
          /\ batch' = [batch EXCEPT
                         !.survey = IF llm.raises THEN "error" ELSE "text",
                         !.pc = "done"]
    /\ UNCHANGED <<mainVars, agentVars, parsers, lastParse, text, fixed, pdf_files, writers, appended>>

NextBatch ==
    \/ ProcessPapersBegin
    \/ ParseNextPdf
    \/ SummarizeNextPaper
    \/ SynthesizeSummaries
    \/ GenerateSurvey

SpecBatch == InitBatch /\ [][NextBatch]_vars

-----------------------------------------------------------------------------
(* The trace file: TraceLogger (research_copilot_interactive.py) and           *)
(* StorageManager.log_trace (tools/storage_tools.py).                          *)

\* Largest number of append calls on the trace file.
MaxAppends == 3

\* Largest number of write calls in which the file object hands one line to the file.
MaxWrites == 2

\* The entry built by TraceLogger.log (lines 35-40); n tells the events apart.
log_entry(c, n) ==
    [agent |-> "agent", action |-> "action", data |-> [caller |-> c, n |-> n]]

\* The entry built by StorageManager.log_trace (lines 21-25)
log_trace_entry(c, n) ==
    [event_type |-> "event", data |-> [caller |-> c, n |-> n]]

\* A line as the writes in which it reaches the file
Pieces(entry, n) == [k \in 1..n |-> [entry |-> entry, part |-> k, parts |-> n]]

\* "with open(self.trace_file, 'a') as f: f.write(line)" up to the write: the file
\* is open for appending and the line is in the file object, which hands it to
\* the file in one write or in several; no lock is taken.
OpenAndWrite(c, entry) ==
    /\ writers[c] = <<>>
    /\ appended < MaxAppends
    /\ \E n \in 1..MaxWrites : writers' = [writers EXCEPT ![c] = Pieces(entry, n)]
    /\ appended' = appended + 1
    /\ UNCHANGED <<mainVars, agentVars, parsers, lastParse, trace_file, text, fixed, pdf_files, batch>>

InitAppend ==
    /\ MainIdle("append")
    /\ AgentsIdle
    /\ trace_file = <<>>
    /\ writers = [c \in Callers |-> <<>>]
    /\ appended = 0
    /\ parsers = <<>>
    /\ lastParse = NoParse
    /\ text = <<>>
    /\ fixed = NoFix
    /\ pdf_files = <<>>
    /\ batch = NoBatch

\* TraceLogger.log called by caller c
CallLog(c) ==
    /\ pc = "append"
    /\ OpenAndWrite(c, log_entry(c, appended + 1))

\* StorageManager.log_trace called by caller c
CallLogTrace(c) ==
    /\ pc = "append"
    /\ OpenAndWrite(c, log_trace_entry(c, appended + 1))

\* One write of caller c's file object reaches the end of the file (append mode);
\* after the last one the with block closes the file.
WriteToFile(c) ==
    /\ pc = "append"
    /\ writers[c] # <<>>
    /\ trace_file' = Append(trace_file, Head(writers[c]))
    /\ writers' = [writers EXCEPT ![c] = Tail(@)]
    /\ UNCHANGED <<mainVars, agentVars, parsers, lastParse, text, fixed, pdf_files, batch, appended>>

NextAppend ==
    \E c \in Callers :
        \/ CallLog(c)
        \/ CallLogTrace(c)
        \/ WriteToFile(c)

SpecAppend == InitAppend /\ [][NextAppend]_vars

\* Lengths of the prompts and responses given to log_llm_interaction
PromptLengths == {PromptPrefix, MaxLlmLen}

ResponseLengths == {ResponsePreview, MaxLlmLen}

\* One caller, one call at a time: a line reaches the file whole.
AppendLine(entry) ==
    /\ appended < MaxAppends
    /\ trace_file' = Append(trace_file, [entry |-> entry, part |-> 1, parts |-> 1])
    /\ appended' = appended + 1
    /\ UNCHANGED <<mainVars, agentVars, parsers, lastParse, text, fixed, pdf_files, batch, writers>>

InitTrace ==
    /\ MainIdle("trace")
    /\ AgentsIdle
    /\ trace_file = <<>>
    /\ writers = [c \in Callers |-> <<>>]
    /\ appended = 0
    /\ parsers = <<>>
    /\ lastParse = NoParse
    /\ text = <<>>
    /\ fixed = NoFix
    /\ pdf_files = <<>>
    /\ batch = NoBatch

\* TraceLogger.__init__: open(trace_file, 'w') and write ""
NewTraceLogger ==
    /\ pc = "trace"
    /\ trace_file' = <<>>
    /\ UNCHANGED <<mainVars, agentVars, parsers, lastParse, text, fixed, pdf_files, batch,
                   writers, appended>>

\* ResearchCopilot.__init__ (line 649), as called by main_interactive, by the web
\* run and by each round of ParameterComparison.run_comparison: it builds a
\* TraceLogger on config["output"]["trace_file"], and then a PDFParser (line 655).
NewResearchCopilot ==
    /\ pc = "trace"
    /\ trace_file' = <<>>
    /\ parsers' \in ParserLists
    /\ UNCHANGED <<mainVars, agentVars, lastParse, text, fixed, pdf_files, batch, writers, appended>>

Log ==
    /\ pc = "trace"
    /\ AppendLine(log_entry(1, appended + 1))

LogLlmInteraction ==
    /\ pc = "trace"
    /\ \E prompt_length \in PromptLengths, response_length \in ResponseLengths :
          AppendLine(llm_interaction_entry("agent", prompt_length, response_length))

LogTrace ==
    /\ pc = "trace"
    /\ AppendLine(log_trace_entry(1, appended + 1))

NextTrace ==
    \/ NewTraceLogger
    \/ NewResearchCopilot
    \/ Log
    \/ LogLlmInteraction
    \/ LogTrace

SpecTrace == InitTrace /\ [][NextTrace]_vars

-----------------------------------------------------------------------------
(* The agents and the language model: SummarizerAgent, SynthesizerAgent and    *)
(* SurveyWriterAgent of research-copilot/agents with OllamaClient.generate and *)
(* StorageManager.save_llm_response, and the three agents of                   *)
(* research_copilot_interactive.py with ollama.chat. Texts are modelled by     *)
(* their lengths.                                                              *)

\* prompt[:500] in the save_llm_response calls of the agents
SavedPromptPrefix == 500

\* len("\n\n## References\n")
ReferencesHeaderLen == 16

\* Length of one line of paper_refs, "[i] filename: title"
RefLineLen == 20

\* Length of the text "Error calling Ollama at <host>: <error>"
ErrorTextLen == 60

\* What the model backend does with one request: it raises, or it answers with
\* a text of some length (possibly the empty text).
BackendResponses ==
    {[raises |-> TRUE, length |-> 0]}
        \cup {[raises |-> FALSE, length |-> n] : n \in {0} \cup ResponseLengths}

\* Lengths of the prompts the agents build
AgentPromptLengths ==
    {SavedPromptPrefix - 1, SavedPromptPrefix, SavedPromptPrefix + 1, MaxLlmLen}

\* OllamaClient.generate: the response text, or, when the backend raises, the
\* text "Error calling Ollama at ..." returned in its place
ollama_generate(backend) ==
    IF backend.raises
    THEN [kind |-> "error_text", length |-> ErrorTextLen]
    ELSE [kind |-> "response", length |-> backend.length]

\* StorageManager.save_llm_response(agent_name, prompt, response, host): the
\* content of the file it writes
save_llm_response(agent_name, prompt, response) ==
    [agent |-> agent_name, prompt |-> prompt, response |-> response]

\* summarize_paper, synthesize_insights and generate_mini_survey of the
\* research-copilot agents: log agent_call and llm_call, ask the model, save the
\* interaction and the result, log agent_result. The survey writer saves the
\* survey with its references section in place of the response.
agent_llm_call(agent_name, prompt_length, backend, num_papers) ==
    LET response == ollama_generate(backend)
        stored == IF agent_name = "SurveyWriterAgent"
                  THEN response.length + ReferencesHeaderLen + num_papers * RefLineLen
                  ELSE response.length
    IN  [called |-> TRUE, agent |-> agent_name, prompt_length |-> prompt_length,
         failed |-> backend.raises, response_length |-> response.length,
         outcome |-> "returned", result |-> response.kind,
         saved |-> <<save_llm_response(agent_name,
                                       slice_length(prompt_length, SavedPromptPrefix),
                                       stored)>>,
         events |-> agent_events(agent_name)]

\* summarize, synthesize and generate_survey of research_copilot_interactive.py:
\* ollama.chat inside a try; the answer is logged with log_llm_interaction; on an
\* exception summarize logs an error entry and returns the emergency summary,
\* synthesize returns a dict of "Error" texts and generate_survey the text "Error: ...".
interactive_llm_call(agent_name, prompt_length, backend) ==
    [called |-> TRUE, agent |-> agent_name, prompt_length |-> prompt_length,
     failed |-> backend.raises, response_length |-> backend.length,
     outcome |-> "returned",
     result |-> IF ~backend.raises THEN "response"
                ELSE IF agent_name = "SummarizerAgent" THEN "emergency_summary"
                ELSE "error_text",
     saved |-> <<>>,
     events |-> IF ~backend.raises
                THEN <<llm_interaction_entry(agent_name, prompt_length, backend.length)>>
                ELSE IF agent_name = "SummarizerAgent"
                THEN <<[agent |-> agent_name, action |-> "error", data |-> [error |-> "ollama"]]>>
                ELSE <<>>]

InitAgents ==
    /\ MainIdle("agents")
    /\ InteractiveIdle
    /\ lastLlm = NoLlm
    /\ lastRead = NoRead

\* SummarizerAgent.summarize_paper (agents/summarizer.py)
CallSummarizePaper ==
    /\ pc = "agents"
    /\ \E prompt_length \in AgentPromptLengths, backend \in BackendResponses,
          num_papers \in 1..MaxPapers :
          lastLlm' = agent_llm_call("SummarizerAgent", prompt_length, backend, num_papers)
    /\ UNCHANGED <<mainVars, interactiveVars, lastRead>>

\* SynthesizerAgent.synthesize_insights (agents/synthesizer.py)
CallSynthesizerAgent ==
    /\ pc = "agents"
    /\ \E prompt_length \in AgentPromptLengths, backend \in BackendResponses,
          num_papers \in 1..MaxPapers :
          lastLlm' = agent_llm_call("SynthesizerAgent", prompt_length, backend, num_papers)
    /\ UNCHANGED <<mainVars, interactiveVars, lastRead>>

\* SurveyWriterAgent.generate_mini_survey (agents/survey_writer.py)
CallGenerateMiniSurvey ==
    /\ pc = "agents"
    /\ \E prompt_length \in AgentPromptLengths, backend \in BackendResponses,
          num_papers \in 1..MaxPapers :
          lastLlm' = agent_llm_call("SurveyWriterAgent", prompt_length, backend, num_papers)
    /\ UNCHANGED <<mainVars, interactiveVars, lastRead>>

\* SummarizerAgent.summarize (research_copilot_interactive.py)
CallSummarize ==
    /\ pc = "agents"
    /\ \E prompt_length \in AgentPromptLengths, backend \in BackendResponses :
          lastLlm' = interactive_llm_call("SummarizerAgent", prompt_length, backend)
    /\ UNCHANGED <<mainVars, interactiveVars, lastRead>>

\* SynthesisAgent.synthesize (research_copilot_interactive.py)
CallSynthesize ==
    /\ pc = "agents"
    /\ \E prompt_length \in AgentPromptLengths, backend \in BackendResponses :
          lastLlm' = interactive_llm_call("SynthesisAgent", prompt_length, backend)
    /\ UNCHANGED <<mainVars, interactiveVars, lastRead>>

\* SurveyGeneratorAgent.generate_survey (research_copilot_interactive.py)
CallGenerateSurvey ==
    /\ pc = "agents"
    /\ \E prompt_length \in AgentPromptLengths, backend \in BackendResponses :
          lastLlm' = interactive_llm_call("SurveyGeneratorAgent", prompt_length, backend)
    /\ UNCHANGED <<mainVars, interactiveVars, lastRead>>

NextAgents ==
    \/ CallSummarizePaper
    \/ CallSynthesizerAgent
    \/ CallGenerateMiniSurvey
    \/ CallSummarize
    \/ CallSynthesize
    \/ CallGenerateSurvey

SpecAgents == InitAgents /\ [][NextAgents]_vars

-----------------------------------------------------------------------------
(* The trace viewers: "View Trace Logs" of main_interactive and the trace tab  *)
(* of web_app.py, reading a file a TraceLogger has written.                    *)

\* The process that writes the trace stopped in the middle of a line: the last
\* line of the file is the first of several writes and the rest never comes.
EndsInPartialLine(f) ==
    f # <<>> /\ f[Len(f)].part < f[Len(f)].parts

\* json.loads(line): a line parses when it is a whole entry
json_loads(line) ==
    IF line.parts = 1
    THEN [raises |-> FALSE, entry |-> line.entry]
    ELSE [raises |-> TRUE, entry |-> line.entry]

\* "for line in f: entry = json.loads(line); print(...)" from line i on: the
\* entries shown before the loop ends or json.loads raises
RECURSIVE view_lines(_, _, _)
view_lines(f, i, shown) ==
    IF i > Len(f) THEN [outcome |-> "returned", entries |-> shown]
    ELSE LET r == json_loads(f[i])
         IN  IF r.raises
             THEN [outcome |-> "raised", entries |-> shown]
             ELSE view_lines(f, i + 1, Append(shown, r.entry))

\* "entries = [json.loads(line) for line in f]": all the entries, or the exception
load_entries(f) ==
    LET r == view_lines(f, 1, <<>>)
    IN  IF r.outcome = "raised" THEN [outcome |-> "raised", entries |-> <<>>] ELSE r

InitReader ==
    /\ MainIdle("reader")
    /\ InteractiveIdle
    /\ lastLlm = NoLlm
    /\ lastRead = NoRead

\* TraceLogger.log or log_llm_interaction by the one writer of the file
WriteLine ==
    /\ pc = "reader"
    /\ ~EndsInPartialLine(trace_file)
    /\ \E entry \in {log_entry(1, appended + 1)}
                      \cup {llm_interaction_entry("agent", MaxLlmLen, n) : n \in ResponseLengths} :
          AppendLine(entry)
    /\ UNCHANGED agentVars

\* The writer is killed between two writes of one line
CrashMidWrite ==
    /\ pc = "reader"
    /\ ~EndsInPartialLine(trace_file)
    /\ appended < MaxAppends
    /\ trace_file' = Append(trace_file, Pieces(log_entry(1, appended + 1), MaxWrites)[1])
    /\ appended' = appended + 1
    /\ UNCHANGED <<mainVars, agentVars, parsers, lastParse, text, fixed, pdf_files, batch, writers>>

\* main_interactive, choice 3 (lines 789-799)
ViewTraceLogs ==
    /\ pc = "reader"
    /\ LET r == view_lines(trace_file, 1, <<>>)
       IN  lastRead' = [called |-> TRUE, file |-> trace_file, outcome |-> r.outcome,
                        entries |-> r.entries]
    /\ UNCHANGED <<mainVars, interactiveVars, lastLlm>>

\* web_app.py, trace tab (lines 697-700)
WebTraceTab ==
    /\ pc = "reader"
    /\ LET r == load_entries(trace_file)
       IN  lastRead' = [called |-> TRUE, file |-> trace_file, outcome |-> r.outcome,
                        entries |-> r.entries]
    /\ UNCHANGED <<mainVars, interactiveVars, lastLlm>>

NextReader ==
    \/ WriteLine
    \/ CrashMidWrite
    \/ ViewTraceLogs
    \/ WebTraceTab

SpecReader == InitReader /\ [][NextReader]_vars

-----------------------------------------------------------------------------
(* Properties *)

\* task is the task of the first false flag of state in FlagOrder, or
\* "complete" when no flag is false.
IsFirstFalseTask(state, task) ==
    \/ /\ \A i \in 1..4 : state[FlagOrder[i]]
       /\ task = "complete"
    \/ \E i \in 1..4 :
          /\ ~state[FlagOrder[i]]
          /\ \A j \in 1..(i - 1) : state[FlagOrder[j]]
          /\ task = StageOrder[i]

PrefixClosed(state) ==
    \A i \in 2..4 : state[FlagOrder[i]] => state[FlagOrder[i - 1]]

\* C1: for each of the 16 flag combinations _rule_based_decision returns the
\* task of the first false flag in the order papers_parsed, summaries_generated,
\* synthesis_done, survey_written; it returns complete exactly when all four
\* flags are true, and parse_papers whenever papers_parsed is false.
C1_NextTaskIsFirstFalseFlag ==
    lastRule.called =>
        /\ IsFirstFalseTask(lastRule.state, lastRule.task)
        /\ (lastRule.task = "complete") <=> (\A f \in Flags : lastRule.state[f])
        /\ ~lastRule.state["papers_parsed"] => lastRule.task = "parse_papers"

\* _rule_based_decision was applied to a state that is not a prefix state:
\* papers_parsed false with every later flag true.
C1_Witness ==
    /\ lastRule.called
    /\ ~lastRule.state["papers_parsed"]
    /\ lastRule.state["summaries_generated"]
    /\ lastRule.state["synthesis_done"]
    /\ lastRule.state["survey_written"]
    /\ lastRule.task = "parse_papers"

\* The selector is absent (Simple orchestrator) or failed: it raised, returned
\* no agent, or returned an identifier task_mapping does not know.
SelectorAbsentOrFailed(d) ==
    \/ d.otype = "Simple"
    \/ d.sel.kind = "raise"
    \/ d.sel.agent \notin AgentNames

C3_DecideAlwaysReturnsTask ==
    lastDecide.called => (lastDecide.outcome = "returned" /\ lastDecide.task \in Tasks)

\* C4: the flags are prefix-closed in every reachable state, and the work of a
\* stage is executed only when the flag of every earlier stage is true,
\* whatever the selector answers and in whatever order the stages are invoked.
C4_DependencyChainKept ==
    /\ PrefixClosed(pipeline_state)
    /\ \A i \in 1..4 :
          (lastCall.stage = StageOrder[i] /\ lastCall.executed)
              => \A j \in 1..(i - 1) : lastCall.before[FlagOrder[j]]

\* A MultiAgent selector named an agent other than the one of the next task,
\* and the stage it named executed its work.
C4_Witness ==
    /\ lastCall.stage = "generate_summaries"
    /\ lastCall.executed
    /\ lastDecide.mapped
    /\ lastCall.decided # rule_based_decision(lastCall.before)
    /\ PrefixClosed(pipeline_state)

\* C5: once a flag is true it stays true after every later step.
C5_FlagsMonotone ==
    [][\A f \in Flags : pipeline_state[f] => pipeline_state'[f]]_vars

\* parse_papers ran again with papers_parsed already true and extracted
\* nothing; the flag is still true.
C5_Witness ==
    /\ lastCall.stage = "parse_papers"
    /\ lastCall.before["papers_parsed"]
    /\ lastCall.result = "empty"
    /\ pipeline_state["papers_parsed"]

\* C6: a flag goes from false to true only in an invocation of its own stage
\* whose work was executed and returned a non-empty result; an invocation
\* whose work returned an empty result leaves every false flag false.
C6_FlagSetOnlyByOwnStageWithResult ==
    [][/\ \A f \in Flags :
             (~pipeline_state[f] /\ pipeline_state'[f]) =>
                 /\ lastCall'.stage \in Stages
                 /\ FlagOf(lastCall'.stage) = f
                 /\ lastCall'.before = pipeline_state
                 /\ lastCall'.executed
                 /\ lastCall'.result = "nonempty"
       /\ (lastCall'.result = "empty" /\ lastCall'.before = pipeline_state) =>
             \A f \in Flags : ~pipeline_state[f] => ~pipeline_state'[f]]_vars

\* generate_summaries was invoked with its flag false, its work returned
\* summaries, and the flag is now true.
C6_Witness ==
    /\ lastCall.stage = "generate_summaries"
    /\ ~lastCall.before["summaries_generated"]
    /\ lastCall.result = "nonempty"
    /\ pipeline_state["summaries_generated"]

\* C7: completing a stage that is not _rule_based_decision(state) is rejected:
\* the invocation does not report success and changes no flag.
C7_AdvanceOnlyNextTask ==
    (lastCall.stage \in Stages /\ lastCall.stage # rule_based_decision(lastCall.before))
        => (lastCall.ret # "True" /\ pipeline_state = lastCall.before)

\* C8: no stage re-runs: the rule-based task is never a stage whose flag is
\* true, and the work of a stage is never executed when its flag is already true.
C8_NoStageReruns ==
    /\ \A i \in 1..4 :
          pipeline_state[FlagOrder[i]] => rule_based_decision(pipeline_state) # StageOrder[i]
    /\ (lastCall.stage \in Stages /\ lastCall.executed)
          => ~lastCall.before[FlagOf(lastCall.stage)]

\* C9: a run_full_pipeline started with all flags false, in which every stage
\* work that was executed returned a non-empty result, ends with all four
\* flags true, whatever the selector answered.
C9_RunAllCompletes ==
    (run.finished /\ run.start = InitialPipelineState /\ run.workOk)
        => \A f \in Flags : pipeline_state[f]

\* C10: an invocation that returns False leaves the four flags as they were;
\* one that returns True found its own flag false, set it, and left the other
\* three as they were.
C10_StageFrame ==
    lastCall.stage \in Stages =>
        /\ lastCall.ret = "False" => pipeline_state = lastCall.before
        /\ lastCall.ret = "True" =>
              /\ ~lastCall.before[FlagOf(lastCall.stage)]
              /\ pipeline_state = [lastCall.before EXCEPT ![FlagOf(lastCall.stage)] = TRUE]

\* The stage methods a run has called so far are the first ones of the fixed order.
AttemptedInOrder ==
    /\ Len(run.attempted) <= 4
    /\ \A i \in 1..Len(run.attempted) : run.attempted[i] = StageOrder[i]

\* The position of run_full_pipeline: how many of its four stage lines are behind it.
LinesDone ==
    CASE pc = "run_parse" -> 0
      [] pc = "run_summaries" -> 1
      [] pc = "run_synthesis" -> 2
      [] pc = "run_survey" -> 3
      [] OTHER -> 4

\* C11: run_full_pipeline calls the stage methods in the order parse, summarize,
\* synthesize, survey, one at a time, each only after the one before it has
\* returned; once a stage method has returned False, the rest of that run calls
\* no stage method (no decide call, no work), and the flags, the stored results
\* and the record of the last call stay as they were.
C11_FixedOrderStopAtFirstFailure ==
    /\ [](run.active => /\ AttemptedInOrder
                        /\ Len(run.attempted) <= LinesDone
                        /\ (pc # "crashed" /\ Len(run.attempted) < LinesDone)
                              => lastCall.ret = "False")
    /\ [][(run.active /\ run.attempted # <<>> /\ lastCall.ret = "False")
             => /\ run'.attempted = run.attempted
                /\ run'.executed = run.executed
                /\ UNCHANGED <<pipeline_state, parsed_papers, summaries, synthesis,
                               survey, lastDecide, lastCall>>]_vars

\* A run in which parse succeeded and summarize reported failure has reached its
\* end with only those two stage methods called and papers_parsed still set.
C11_Witness ==
    /\ run.finished
    /\ run.start = InitialPipelineState
    /\ run.attempted = <<"parse_papers", "generate_summaries">>
    /\ run.executed = <<"parse_papers">>
    /\ lastCall.ret = "False"
    /\ pipeline_state["papers_parsed"]

\* C12: a run_full_pipeline started on a state in which some leading stages are
\* already complete, with the rule-based orchestrator and every stage work that
\* runs returning a non-empty result, ends with all four flags true.
C12_ResumeCompletes ==
    (/\ run.finished
     /\ orchestrator_type = "Simple"
     /\ PrefixClosed(run.start)
     /\ run.start # InitialPipelineState
     /\ run.workOk)
        => \A f \in Flags : pipeline_state[f]

\* Number of the first parser in ps whose backend returns a non-empty text; 0 if none does.
FirstNonEmpty(ps, outcome) ==
    LET S == {i \in 1..Len(ps) :
                 outcome[ps[i]].kind = "returns" /\ Len(outcome[ps[i]].text) > 0}
    IN  IF S = {} THEN 0 ELSE CHOOSE i \in S : \A j \in S : i <= j

\* C13: for every list of parsers and every outcome of every backend (raises,
\* empty text, non-empty text) parse_pdf calls the backends one at a time in the
\* order of the list; when some backend returns a non-empty text it calls the
\* backends up to the first such one and no further, and returns that backend's
\* result, "parser" naming it, whatever the earlier backends did; when none
\* does, it calls all of them and raises.
C13_FirstNonEmptyBackendWins ==
    lastParse.called =>
        LET first == FirstNonEmpty(parsers, lastParse.outcomes)
        IN  /\ first = 0 => /\ lastParse.invoked = parsers
                            /\ lastParse.outcome = "raised"
            /\ first > 0 => /\ lastParse.invoked = SubSeq(parsers, 1, first)
                            /\ lastParse.outcome = "returned"
                            /\ lastParse.parser = parsers[first]
                            /\ lastParse.raw = lastParse.outcomes[parsers[first]].text

\* Three backends: the first raises, the second returns "hello  world", and
\* parse_pdf has returned the second one's text, normalized, without calling the third.
C13_Witness ==
    /\ lastParse.called
    /\ Len(parsers) = 3
    /\ lastParse.outcomes[parsers[1]].kind = "raises"
    /\ lastParse.outcomes[parsers[2]].text = HelloWorld
    /\ lastParse.invoked = <<parsers[1], parsers[2]>>
    /\ lastParse.parser = parsers[2]
    /\ lastParse.text = <<"h", "e", "l", "l", "o", " ", "w", "o", "r", "l", "d">>

\* C14 as stated: when parse_pdf raises, the error it carries is the error of the
\* last backend it called (none if that backend returned an empty text).
C14_ErrorOfLastBackendAttempted ==
    (lastParse.called /\ lastParse.outcome = "raised") =>
        lastParse.error = lastParse.outcomes[lastParse.invoked[Len(lastParse.invoked)]].error

\* C14 amended: when no backend returns a non-empty text parse_pdf raises after
\* calling all of them, and the error it carries is the error of the last backend
\* that raised, None if none raised; with two backends both raising it is the
\* second one's error.
C14_ErrorOfLastBackendThatRaised ==
    (lastParse.called /\ FirstNonEmpty(parsers, lastParse.outcomes) = 0) =>
        LET R == {i \in 1..Len(parsers) : lastParse.outcomes[parsers[i]].kind = "raises"}
            last == CHOOSE i \in R : \A j \in R : j <= i
        IN  /\ lastParse.outcome = "raised"
            /\ lastParse.invoked = parsers
            /\ lastParse.error = IF R = {} THEN NoError ELSE BackendError(parsers[last])

\* Two backends, both raising: parse_pdf raised with the second one's error.
C14_Witness ==
    /\ lastParse.called
    /\ Len(parsers) = 2
    /\ \A i \in 1..2 : lastParse.outcomes[parsers[i]].kind = "raises"
    /\ lastParse.outcome = "raised"
    /\ lastParse.error = BackendError(parsers[2])
    /\ lastParse.error # BackendError(parsers[1])

\* Space and tab
Blank == {" ", "\t"}

NoLowerUpperBoundary(s) ==
    \A i \in 1..(Len(s) - 1) : ~(s[i] \in Lower /\ s[i + 1] \in Upper)

NoThreeNewlines(s) ==
    \A i \in 1..(Len(s) - 2) : ~(s[i] = "\n" /\ s[i + 1] = "\n" /\ s[i + 2] = "\n")

\* Number of maximal runs of spaces in s
SpaceRuns(s) ==
    Cardinality({i \in 1..Len(s) : s[i] = " " /\ (i = 1 \/ s[i - 1] # " ")})

\* C15 as stated: in the text _fix_spacing returns every run of whitespace is
\* a single character, there is no lowercase letter directly followed by an
\* uppercase one, and there are no three consecutive newlines.
C15_WhitespaceRunsCollapsed ==
    fixed.called =>
        /\ \A i \in 1..(Len(fixed.out) - 1) :
              ~(fixed.out[i] \in Blank /\ fixed.out[i + 1] \in Blank)
        /\ NoLowerUpperBoundary(fixed.out)
        /\ NoThreeNewlines(fixed.out)

\* C15 amended: the text _fix_spacing returns has every run of space characters
\* collapsed to one space (tabs and single or double newlines are left as they
\* are), a space at every lowercase-then-uppercase boundary, and every run of
\* three or more newlines collapsed to two, i.e. to one blank line; the other
\* characters are kept, in order.
C15_SpaceRunsCollapsed ==
    fixed.called =>
        /\ \A i \in 1..(Len(fixed.out) - 1) :
              ~(fixed.out[i] = " " /\ fixed.out[i + 1] = " ")
        /\ SpaceRuns(fixed.out) >= SpaceRuns(text)
        /\ NoLowerUpperBoundary(fixed.out)
        /\ NoThreeNewlines(fixed.out)
        /\ SelectSeq(fixed.out, LAMBDA c : c \notin {" ", "\n"})
              = SelectSeq(text, LAMBDA c : c \notin {" ", "\n"})
        /\ NoThreeNewlines(text) =>
              SelectSeq(fixed.out, LAMBDA c : c = "\n") = SelectSeq(text, LAMBDA c : c = "\n")

\* Two spaces, then a lowercase letter directly followed by an uppercase one.
C15_Witness ==
    /\ fixed.called
    /\ text = <<" ", " ", "a", "B">>
    /\ fixed.out = <<" ", "a", " ", "B">>

\* Four newlines: three blank lines become one.
C15_WitnessBlankLines ==
    /\ fixed.called
    /\ text = <<"\n", "\n", "\n", "\n">>
    /\ fixed.out = <<"\n", "\n">>

\* The parse stage has just run on a folder in which some files, but not all,
\* could be extracted.
PartialParse(call) ==
    /\ call.stage = "parse_papers"
    /\ call.executed
    /\ call.result # "raised"
    /\ \E i \in 1..Len(call.files) : call.files[i]
    /\ \E i \in 1..Len(call.files) : ~call.files[i]

\* C16: a parse stage that ran on N files of which some but not all could be
\* extracted yields exactly the extracted files, in order, logs one failure
\* event for each file that failed, sets papers_parsed and returns True; and
\* the generate_summaries call that follows it is not stopped by its guard: it
\* consults the router, and when the router names generate_summaries it does its
\* work, with one summary for each extracted paper.
C16_PartialParseDoesNotBlock ==
    /\ [](PartialParse(lastCall) =>
            /\ \A i \in 1..Len(lastCall.files) :
                  /\ lastCall.files[i] <=>
                        (\E k \in 1..Len(lastCall.papers) : lastCall.papers[k] = i)
                  /\ ~lastCall.files[i] <=>
                        (\E k \in 1..Len(lastCall.failure_events) :
                              lastCall.failure_events[k] = i)
            /\ Len(lastCall.papers) + Len(lastCall.failure_events) = Len(lastCall.files)
            /\ parsed_papers = Len(lastCall.papers)
            /\ pipeline_state["papers_parsed"]
            /\ lastCall.ret = "True")
    /\ [][(PartialParse(lastCall) /\ lastCall'.stage = "generate_summaries")
             => /\ lastCall'.guard
                /\ lastCall'.decideCalls = 1
                /\ (lastDecide'.outcome = "returned" /\ lastDecide'.task = "generate_summaries")
                      => lastCall'.executed
                /\ lastCall'.result = "nonempty"
                      => (summaries' = parsed_papers /\ pipeline_state'["summaries_generated"])]_vars

\* A run whose parse stage found two files and could extract one of them only,
\* and whose summarize stage then produced one summary.
C16_Witness ==
    /\ run.active
    /\ run.start = InitialPipelineState
    /\ run.executed = <<"parse_papers", "generate_summaries">>
    /\ run.failed = 1
    /\ lastCall.stage = "generate_summaries"
    /\ lastCall.ret = "True"
    /\ parsed_papers = 1
    /\ summaries = 1
    /\ pipeline_state["summaries_generated"]

\* The parse stage of a run has just returned with one of two files extracted.
C16_WitnessParse ==
    /\ PartialParse(lastCall)
    /\ lastCall.files = <<FALSE, TRUE>>
    /\ lastCall.papers = <<2>>
    /\ lastCall.failure_events = <<1>>
    /\ pc = "run_summaries"

\* The files of the folder from which some backend of self.parsers extracts text
Extractable ==
    {i \in 1..Len(pdf_files) : FirstNonEmpty(parsers, pdf_files[i]) > 0}

\* C17: when process_papers has ended on a folder in which the extraction of
\* some file is exhausted and that of some other file is not, it has ended
\* normally, the files it parsed are exactly the extractable ones, and it has
\* summarized each of them, synthesized and written the survey.
C17_ExhaustedSourceSkipped ==
    (/\ batch.pc \in {"done", "failed"}
     /\ Extractable # {}
     /\ Extractable # 1..Len(pdf_files))
        => /\ batch.pc = "done"
           /\ {batch.parsed_papers[k] : k \in 1..Len(batch.parsed_papers)} = Extractable
           /\ Len(batch.summaries) = Cardinality(Extractable)
           /\ batch.synthesis # "none"
           /\ batch.survey # "none"

\* No append call is under way.
Quiescent == \A c \in Callers : writers[c] = <<>>

\* Every line of the file is one whole entry: the writes of a line follow each
\* other directly, from the first to the last.
WholeLines(f) ==
    \A i \in 1..Len(f) :
        /\ f[i].part > 1 =>
              (i > 1 /\ f[i - 1].entry = f[i].entry /\ f[i - 1].part = f[i].part - 1)
        /\ f[i].part < f[i].parts =>
              (i < Len(f) /\ f[i + 1].entry = f[i].entry /\ f[i + 1].part = f[i].part + 1)

\* The numbers of the events read back from the file, line by line
EventsRead(f) ==
    LET firsts == SelectSeq(f, LAMBDA w : w.part = 1)
    IN  [i \in 1..Len(firsts) |-> firsts[i].entry.data.n]

\* C18: when the append calls made by several callers on one trace file have
\* all finished, every line of the file is one whole event, every event
\* appended is read back exactly once, and the events of one caller are read
\* back in the order in which it appended them.
C18_AppendsOrderedAndAtomic ==
    Quiescent =>
        /\ WholeLines(trace_file)
        /\ LET read == EventsRead(trace_file)
           IN  /\ Len(read) = appended
               /\ {read[i] : i \in 1..Len(read)} = 1..appended
               /\ \A i, j \in 1..Len(trace_file) :
                     (/\ i < j
                      /\ trace_file[i].part = 1
                      /\ trace_file[j].part = 1
                      /\ trace_file[i].entry.data.caller = trace_file[j].entry.data.caller)
                        => trace_file[i].entry.data.n < trace_file[j].entry.data.n

IsPrefix(f, g) ==
    Len(f) <= Len(g) /\ SubSeq(g, 1, Len(f)) = f

\* C19: whatever is done with a trace file (a logger built on it, log,
\* log_llm_interaction, log_trace, a new pipeline or comparison run on the same
\* path), what the file held before is still there, unchanged, as a prefix.
C19_TraceAppendOnly ==
    [][IsPrefix(trace_file, trace_file')]_vars

\* C20: the response stored in an llm_interaction entry of the trace is never
\* longer than the preview (200 characters and the ellipsis), whatever the
\* length of the response.
C20_LlmEntryBounded ==
    \A i \in 1..Len(trace_file) :
        ("action" \in DOMAIN trace_file[i].entry
            /\ trace_file[i].entry.action = "llm_interaction") =>
            trace_file[i].entry.data.response <= ResponsePreview + EllipsisLen

\* C21: for every model interaction of a stage, the record save_llm_response
\* writes holds the prompt as it was sent and the response as it was received,
\* neither of them shortened or changed.
C21_SavedInteractionUntruncated ==
    lastLlm.called =>
        \A i \in 1..Len(lastLlm.saved) :
            /\ lastLlm.saved[i].prompt = lastLlm.prompt_length
            /\ lastLlm.saved[i].response = lastLlm.response_length

\* An event of the trace that records an error or an unsuccessful result
ReportsFailure(e) ==
    \/ "action" \in DOMAIN e /\ e.action = "error"
    \/ "event_type" \in DOMAIN e /\ e.data.success = "False"

\* C23: when the model backend fails during a stage, the call returns to the
\* stage without raising, and the failure is reported as a failure: an event
\* of the trace records it, or the stage's outcome is a failure and not a result.
C23_BackendFailureCaughtAndReported ==
    (lastLlm.called /\ lastLlm.failed) =>
        /\ lastLlm.outcome = "returned"
        /\ \/ \E i \in 1..Len(lastLlm.events) : ReportsFailure(lastLlm.events[i])
           \/ lastLlm.result \notin {"response", "error_text"}

\* The entries of the whole lines of f, in file order
CompleteEntries(f) ==
    LET whole == SelectSeq(f, LAMBDA line : line.parts = 1)
    IN  [i \in 1..Len(whole) |-> whole[i].entry]

\* C22: a trace viewer that has read a file whose last line is partial (the
\* writer crashed in the middle of a write) has not failed, and what it returned
\* is every complete event before that line, the partial line being dropped.
C22_ReaderToleratesPartialLastLine ==
    (lastRead.called /\ EndsInPartialLine(lastRead.file)) =>
        /\ lastRead.outcome = "returned"
        /\ lastRead.entries = CompleteEntries(lastRead.file)

\* The selector was asked and failed: it raised, or it returned no agent or an
\* identifier task_mapping does not know.
SelectorFailed(d) ==
    \/ d.sel.kind = "raise" /\ (d.otype = "MultiAgent" \/ rule_based_decision(d.state) # "complete")
    \/ d.otype = "MultiAgent" /\ d.sel.agent \notin AgentNames

\* C24: on every kind of selector failure decide_next_task does not raise, has
\* appended an event that records the failure, and returns the task
\* _rule_based_decision gives for the state.
C24_SelectorFailureLoggedThenFallback ==
    (lastDecide.called /\ SelectorFailed(lastDecide)) =>
        /\ lastDecide.outcome = "returned"
        /\ lastDecide.task = rule_based_decision(lastDecide.state)
        /\ \E i \in 1..Len(lastDecide.events) :
              \/ lastDecide.events[i].event_type = "moya_orchestrator_error"
              \/ "fallback" \in DOMAIN lastDecide.events[i].data

\* C25: every decide_next_task call that returns has appended an event that
\* records the task returned, tells which path produced it (the selected agent
\* or a fallback marker), and holds no more than the bounded prefix of the
\* selector's output.
C25_DecisionEventRecordsTaskAndPath ==
    (lastDecide.called /\ lastDecide.outcome = "returned") =>
        \E i \in 1..Len(lastDecide.events) :
            LET data == lastDecide.events[i].data
            IN  /\ "decision" \in DOMAIN data
                /\ data.decision = lastDecide.task
                /\ ("selected_agent" \in DOMAIN data \/ "fallback" \in DOMAIN data)
                /\ "reasoning" \in DOMAIN data => data.reasoning <= ReasoningPrefix

\* C27: when the selector of a MultiAgent orchestrator answers with one of the
\* four known agent names, decide_next_task returns the task task_mapping pairs
\* with that name, whatever the flags are; when it answers with any other
\* identifier, decide_next_task returns the rule-based task, as on a failure.
C27_KnownAgentMapsToItsTask ==
    (lastDecide.called /\ lastDecide.otype = "MultiAgent" /\ lastDecide.sel.kind = "dict") =>
        /\ lastDecide.outcome = "returned"
        /\ lastDecide.task =
              IF lastDecide.sel.agent \in AgentNames
              THEN task_mapping(lastDecide.sel.agent)
              ELSE rule_based_decision(lastDecide.state)

\* An event that records a skip or a failure of the stage invocation: the
\* router's decision for another task, the router's error, an unsuccessful
\* result, or a parsing summary without papers
RecordsSkipOrFailure(e, stage) ==
    \/ e.event_type = "moya_orchestrator_result" /\ e.data.decision # stage
    \/ e.event_type = "moya_orchestrator_error"
    \/ "success" \in DOMAIN e.data /\ e.data.success = "False"
    \/ e.event_type = "parsing_summary_saved" /\ e.data.total_papers = 0

\* C26: whenever a stage method returns False (the router chose another task,
\* the flag of the stage before it is unset, or its work returned nothing), it
\* has appended to the trace an event that records the skip or the failure.
C26_NoSilentStageFailure ==
    (lastCall.stage \in Stages /\ lastCall.ret = "False") =>
        \E i \in 1..Len(lastCall.events) :
            RecordsSkipOrFailure(lastCall.events[i], lastCall.stage)

\* C28: when run_full_pipeline has ended, the events of that run hold exactly
\* one completion event for each stage whose flag the run set, and none for
\* any other stage.
C28_OneAdvanceEventPerCompletedStage ==
    run.finished =>
        \A st \in Stages :
            run.completions[st] =
                IF ~run.start[FlagOf(st)] /\ pipeline_state[FlagOf(st)] THEN 1 ELSE 0

\* C29: every run of run_full_pipeline starts from its own pipeline state with
\* all four flags false; nothing an earlier run or menu operation wrote to the
\* flags is visible to it.
C29_RunStartsWithFreshPipelineState ==
    run.active => run.start = InitialPipelineState

\* C30 as stated: parse_pdf persists the normalized text nowhere, whether it
\* returns or raises.
C30_ExtractPersistsNothing ==
    lastParse.called => lastParse.parsed_files = <<>>

\* C30 amended: parse_pdf writes the normalized text it returns to one file
\* exactly when it returns, the parser was built with save_parsed, the caller
\* gave an output directory and the write did not fail; when it raises, when
\* saving is off or when no directory is given it persists nothing.
C30_ExtractPersistsOnlyWhenAskedTo ==
    lastParse.called =>
        /\ lastParse.outcome = "raised" => lastParse.parsed_files = <<>>
        /\ ~(lastParse.save.save_parsed /\ lastParse.save.output_dir) =>
              lastParse.parsed_files = <<>>
        /\ lastParse.parsed_files # <<>> =>
              /\ lastParse.outcome = "returned"
              /\ Len(lastParse.parsed_files) = 1
              /\ lastParse.parsed_files[1].text = lastParse.text
              /\ lastParse.parsed_files[1].parser = lastParse.parser
        /\ ( /\ lastParse.outcome = "returned"
             /\ lastParse.save = [save_parsed |-> TRUE, output_dir |-> TRUE, fails |-> FALSE] ) =>
              lastParse.parsed_files # <<>>

\* A first backend that raises and a second that returns "hello  world", with
\* save_parsed on and an output directory: parse_pdf returned the normalized
\* text and wrote exactly that text to one file.
C30_Witness ==
    /\ lastParse.called
    /\ Len(parsers) >= 2
    /\ lastParse.outcomes[parsers[1]].kind = "raises"
    /\ lastParse.outcome = "returned"
    /\ lastParse.raw = HelloWorld
    /\ lastParse.save = [save_parsed |-> TRUE, output_dir |-> TRUE, fails |-> FALSE]
    /\ lastParse.parsed_files =
          <<[parser |-> parsers[2],
             text |-> <<"h", "e", "l", "l", "o", " ", "w", "o", "r", "l", "d">>]>>

PrerequisiteMet(stage, state) ==
    CASE stage = "parse_papers" -> TRUE
      [] stage = "generate_summaries" -> state["papers_parsed"]
      [] stage = "synthesize_insights" -> state["summaries_generated"]
      [] stage = "write_survey" -> state["synthesis_done"]

SelectorMapped(d) ==
    IF d.otype = "MultiAgent"
    THEN d.sel.kind = "dict" /\ task_mapping(d.sel.agent) # "none"
    ELSE /\ d.sel.kind = "response"
         /\ task_mapping(agent_name_map(rule_based_decision(d.state))) # "none"

\* C33: decide_next_task returns complete exactly when all four flags are true
\* and the selector produced no mapped task; task_mapping pairs no agent with
\* complete; and whenever the selector yields no mapped agent decide_next_task
\* returns what _rule_based_decision gives for the state.
C33_CompleteOnlyThroughResolver ==
    lastDecide.called =>
        /\ lastDecide.outcome = "returned" =>
              ( lastDecide.task = "complete" <=>
                   /\ \A f \in Flags : lastDecide.state[f]
                   /\ ~SelectorMapped(lastDecide) )
        /\ ~SelectorMapped(lastDecide) =>
              /\ lastDecide.outcome = "returned"
              /\ lastDecide.task = rule_based_decision(lastDecide.state)
        /\ \A a \in AgentNames \cup {"unknown_agent", "none"} :
              task_mapping(a) # "complete"

\* The positions of the result and error events among the events of a call
TerminalEvents(events) ==
    {i \in 1..Len(events) :
        events[i].event_type \in {"moya_orchestrator_result", "moya_orchestrator_error"}}

\* C34: every decide_next_task call has appended moya_orchestrator_decision as
\* its first event and exactly one terminal event, moya_orchestrator_result or
\* moya_orchestrator_error, as its last; and a result event records the task
\* the call returns, also when save_llm_response fails after it.
C34_OneTerminalEventMatchingReturn ==
    lastDecide.called =>
        LET events == lastDecide.events
        IN  /\ Len(events) >= 1
            /\ events[1].event_type = "moya_orchestrator_decision"
            /\ TerminalEvents(events) = {Len(events)}
            /\ \A i \in 1..Len(events) :
                  events[i].event_type = "moya_orchestrator_result" =>
                      /\ lastDecide.outcome = "returned"
                      /\ events[i].data.decision = lastDecide.task

\* C35: in every reachable state a flag that is true has its stored result:
\* papers_parsed implies parsed papers, summaries_generated implies summaries,
\* synthesis_done implies a synthesis, survey_written implies a survey; no
\* later stage invocation empties the result of a stage whose flag is true.
C35_StoredResultsMatchFlags ==
    /\ pipeline_state["papers_parsed"] => parsed_papers > 0
    /\ pipeline_state["summaries_generated"] => summaries > 0
    /\ pipeline_state["synthesis_done"] => synthesis # "none"
    /\ pipeline_state["survey_written"] => survey # "none"

\* The positions of the steps of a call that log the given actions
LogSteps(steps, actions) ==
    {i \in 1..Len(steps) : steps[i].kind = "log" /\ steps[i].name \in actions}

\* C36: every parse_pdf call logs parse_start as its first step and exactly one
\* closing event as its last, after every backend attempt of the call:
\* parse_complete exactly when it returns, parse_error exactly when it raises;
\* the trace file holds these two events in this order.
C36_StartThenOneClosingEvent ==
    lastParse.called =>
        LET steps == lastParse.steps
            last == steps[Len(steps)]
        IN  /\ Len(steps) >= 2
            /\ LogSteps(steps, {"parse_start"}) = {1}
            /\ LogSteps(steps, {"parse_complete", "parse_error"}) = {Len(steps)}
            /\ (last.name = "parse_complete") <=> (lastParse.outcome = "returned")
            /\ (last.name = "parse_error") <=> (lastParse.outcome = "raised")
            /\ [i \in 1..(Len(steps) - 2) |-> steps[i + 1]] =
                  [i \in 1..Len(lastParse.invoked) |->
                      [kind |-> "attempt", name |-> lastParse.invoked[i]]]
            /\ [i \in 1..Len(trace_file) |-> trace_file[i].entry.action] =
                  <<"parse_start", last.name>>

\* Two backends, the first raising and the second returning an empty text:
\* parse_pdf raised, and its steps are parse_start, the two attempts, parse_error.
C36_Witness ==
    /\ lastParse.called
    /\ Len(parsers) = 2
    /\ lastParse.outcomes[parsers[1]].kind = "raises"
    /\ lastParse.outcomes[parsers[2]].kind # "raises"
    /\ lastParse.outcome = "raised"
    /\ lastParse.steps = <<[kind |-> "log", name |-> "parse_start"],
                           [kind |-> "attempt", name |-> parsers[1]],
                           [kind |-> "attempt", name |-> parsers[2]],
                           [kind |-> "log", name |-> "parse_error"]>>

\* C37: _fix_spacing applied to its own result returns that result unchanged,
\* and its result is empty only for the empty text; the text_length of a result
\* parse_pdf returns is the length of the returned text and is positive.
C37_FixSpacingIdempotent ==
    /\ fixed.called => (fixed.out = <<>> <=> text = <<>>)
    /\ fixed.again => fixed.out_again = fixed.out
    /\ (lastParse.called /\ lastParse.outcome = "returned") =>
          /\ lastParse.text_length = Len(lastParse.text)
          /\ lastParse.text_length > 0

\* _fix_spacing turned "aB" followed by two spaces into "a B" and one space, and
\* applied to that text returned it unchanged.
C37_Witness ==
    /\ text = <<"a", "B", " ", " ">>
    /\ fixed.again
    /\ fixed.out = <<"a", " ", "B", " ">>
    /\ fixed.out_again = <<"a", " ", "B", " ">>

====
